---- MODULE Spec2Model ----
(***************************************************************************)
(* Graph Document Engine of the objective-graph worker: node contract      *)
(* (normalizeNode / enforceGraphContractOnDocument), percentage            *)
(* propagation (calculateTruePercentages), the patch_graph_document        *)
(* handler (RFC 6902 patch, validation, squishing, change gate,            *)
(* persistence, versioning) and the version tools.                         *)
(*                                                                         *)
(* A JSON object is modelled with its key order, because the change gate   *)
(* compares JSON.stringify outputs: a document is [order, nodes] where     *)
(* order is the key order of doc.nodes and nodes maps each key to its      *)
(* node.  Numbers are exact rationals <<numerator, denominator>>.          *)
(***************************************************************************)
EXTENDS Integers, Sequences, FiniteSets, TLC

VARIABLES live, versions, last, pin, pout, faultBudget, inflight,
          messages, summaries, deployed, reply, uniqueIndex

vars == <<live, versions, last, pin, pout, faultBudget, inflight,
          messages, summaries, deployed, reply, uniqueIndex>>

summaryVars == <<messages, summaries, deployed, reply, uniqueIndex>>

(***************************************************************************)
(* Bounds of the model.                                                    *)
(***************************************************************************)
MaxVersions == 2

\* Storage calls that may fail in a behaviour with storage faults.
MaxFaults == 1

(***************************************************************************)
(* Strings.  Undefined is the JavaScript undefined of an absent property.  *)
(***************************************************************************)
Undefined == "<undefined>"

\* String.prototype.trim on the vocabulary of the model.
Trim(s) ==
    CASE s = " main " -> "main"
      [] s = " a " -> "a"
      [] s = " in-progress " -> "in-progress"
      [] s = "  " -> ""
      [] s = " m1 " -> "m1"
      [] s = " m3 " -> "m3"
      [] s = " completed " -> "completed"
      [] s = " Completed " -> "Completed"
      [] s = " Pending " -> "Pending"
      [] OTHER -> s

\* String.prototype.toLowerCase on the vocabulary of the model.
ToLowerCase(s) ==
    CASE s = "objectiveNode" -> "objectivenode"
      [] s = "ObjectiveNode" -> "objectivenode"
      [] s = "Pending" -> "pending"
      [] s = "Main" -> "main"
      [] s = "PENDING" -> "pending"
      [] s = "In-Progress" -> "in-progress"
      [] s = "Not-Started" -> "not-started"
      [] s = "Completed" -> "completed"
      [] s = "COMPLETED" -> "completed"
      [] OTHER -> s

ALLOWED_STATUSES == {"not-started", "in-progress", "completed"}
DEFAULT_STATUS == "not-started"
ALLOWED_NODE_TYPE == "objectiveNode"

(***************************************************************************)
(* Rational arithmetic (JavaScript numbers, without rounding).             *)
(***************************************************************************)
RECURSIVE Gcd(_, _)
Gcd(x, y) == IF y = 0 THEN x ELSE Gcd(y, x % y)

Abs(x) == IF x < 0 THEN 0 - x ELSE x

\* Not a number: what arithmetic on an absent number gives.
NaN == <<1, 0>>

Rat(n, d) ==
    LET g == Gcd(Abs(n), d)
    IN  IF d = 0 THEN NaN
        ELSE IF n = 0 THEN <<0, 1>> ELSE <<n \div g, d \div g>>

Zero == Rat(0, 1)
Num(n) == Rat(n, 1)
RAdd(x, y) == Rat(x[1] * y[2] + y[1] * x[2], x[2] * y[2])
RMul(x, y) == Rat(x[1] * y[1], x[2] * y[2])
RDivInt(x, k) == Rat(x[1], x[2] * k)

\* The value of a node property that holds no number yet.
NoNumber == <<0, 0>>

(***************************************************************************)
(* Nodes and documents.                                                    *)
(*   node: [type, status, parents, graph, percentage_of_parent,            *)
(*          true_percentage_of_total]                                      *)
(*   an absent parents property is the one-element list <<Undefined>>.     *)
(*   document: [order |-> key order of doc.nodes, nodes |-> key -> node]   *)
(***************************************************************************)
NoParents == <<Undefined>>

NoNodes == [k \in {} |-> Undefined]

EmptyDoc == [order |-> <<>>, nodes |-> NoNodes]

Keys(doc) == {doc.order[i] : i \in 1..Len(doc.order)}

Range(s) == {s[i] : i \in 1..Len(s)}

NonEmptyString(s) == s # ""

Fail(e) == [ok |-> FALSE, err |-> e]

\* options of normalizeNode: validNodeIds given or not.
NoOptions == [has |-> FALSE, ids |-> {}]
WithIds(ids) == [has |-> TRUE, ids |-> ids]

\* normalizeNode, type section.
NormalizedType(node) ==
    LET lowered == ToLowerCase(Trim(node.type))
        raw1 == IF node.type # Undefined /\ lowered = "objectivenode"
                THEN ALLOWED_NODE_TYPE ELSE node.type
        raw2 == IF raw1 = Undefined \/ raw1 = "" THEN ALLOWED_NODE_TYPE ELSE raw1
    IN  raw2

\* normalizeNode, status section: the status to store, or "!" when it throws.
\* A check of the status that ignores the letter case.
StatusAcceptedInAnyCase(trimmedStatus) == ToLowerCase(trimmedStatus) \in ALLOWED_STATUSES

StatusAccepted(trimmedStatus) == trimmedStatus \in ALLOWED_STATUSES

NormalizedStatus(node) ==
    IF node.status = Undefined \/ node.status = ""
    THEN node.status
    ELSE LET trimmedStatus == Trim(node.status)
         IN  IF StatusAccepted(trimmedStatus) THEN trimmedStatus
             ELSE IF ToLowerCase(trimmedStatus) = "pending" THEN DEFAULT_STATUS
             ELSE "!"

\* normalizeNode, parents section.
NormalizedParents(node) ==
    IF node.parents = NoParents
    THEN <<>>
    ELSE SelectSeq([i \in 1..Len(node.parents) |-> Trim(node.parents[i])],
                   NonEmptyString)

\* A contract without the self-containment check.
NeverSelfContainment(nodeId, trimmedGraph) == FALSE

\* normalizeNode, the self-containment test.
IsSelfContainment(nodeId, trimmedGraph) == trimmedGraph = nodeId

\* A contract without the unknown-container check.
NeverUnknownContainer(trimmedGraph, options) == FALSE

\* normalizeNode, the container-reference test.
IsUnknownContainer(trimmedGraph, options) ==
    options.has /\ trimmedGraph \notin options.ids

\* normalizeNode: [ok, node] with the node as mutated, or [ok = FALSE, err].
normalizeNode(nodeId, node, options) ==
    LET trimmedGraph == Trim(node.graph)
        norm == [node EXCEPT !.type = ALLOWED_NODE_TYPE,
                             !.status = NormalizedStatus(node),
                             !.parents = NormalizedParents(node),
                             !.graph = trimmedGraph]
    IN  IF NormalizedType(node) # ALLOWED_NODE_TYPE THEN Fail("InvalidNodeType")
        ELSE IF NormalizedStatus(node) = "!" THEN Fail("InvalidStatus")
        ELSE IF node.graph = Undefined THEN Fail("MissingGraphMembership")
        ELSE IF trimmedGraph = "" THEN Fail("EmptyGraphValue")
        ELSE IF IsSelfContainment(nodeId, trimmedGraph) THEN Fail("SelfContainment")
        ELSE IF trimmedGraph # "main" /\ IsUnknownContainer(trimmedGraph, options)
             THEN Fail("UnknownGraphContainer")
        ELSE [ok |-> TRUE, err |-> "", node |-> norm]

\* enforceGraphContractOnDocument, the loop over Object.entries(document.nodes)
\* from position i: the first error, or the document with every node normalized.
RECURSIVE EnforceFrom(_, _, _)
EnforceFrom(doc, i, validNodeIds) ==
    IF i > Len(doc.order) THEN [ok |-> TRUE, err |-> "", doc |-> doc]
    ELSE LET nodeId == doc.order[i]
             Normalized(r) ==
                 IF ~r.ok THEN Fail(r.err)
                 ELSE EnforceFrom([doc EXCEPT !.nodes[nodeId] = r.node], i + 1,
                                  validNodeIds)
         IN  Normalized(normalizeNode(nodeId, doc.nodes[nodeId], WithIds(validNodeIds)))

enforceGraphContractOnDocument(doc) == EnforceFrom(doc, 1, Keys(doc))

(***************************************************************************)
(* calculateTruePercentages: memoized recursion over parents.  The code    *)
(* has no cycle guard: re-entering a node that is still being computed     *)
(* recurses until the engine throws RangeError (stack overflow).           *)
(***************************************************************************)
\* What a call of getTruePercentage leaves: the node objects, the memo, the
\* value returned, and evaluated, the ids whose value was computed (the calls
\* that got past the memo), in the order they were entered.
Ok(nodes, memo, val, evaluated) ==
    [ok |-> TRUE, err |-> "", nodes |-> nodes, memo |-> memo, val |-> val,
     evaluated |-> evaluated]

\* A memo that is never hit.
NeverMemoized(memo, nodeId) == FALSE

\* memo[nodeId] !== undefined
Memoized(memo, nodeId) == nodeId \in DOMAIN memo

\* A root that starts from the true percentage stored on the node.
RootContributionSeeded(node) ==
    IF node.true_percentage_of_total # NoNumber
    THEN RAdd(node.true_percentage_of_total,
              IF node.percentage_of_parent = NoNumber THEN Zero
              ELSE node.percentage_of_parent)
    ELSE IF node.percentage_of_parent = NoNumber THEN Zero
    ELSE node.percentage_of_parent

\* memo[nodeId] = node.percentage_of_parent || 0
RootContribution(node) ==
    IF node.percentage_of_parent = NoNumber THEN Zero ELSE node.percentage_of_parent

\* (node.percentage_of_parent / 100) * parentPercentage
ParentContribution(node, parentPercentage) ==
    RMul(RDivInt(node.percentage_of_parent, 100), parentPercentage)

\* A lookup that takes an id that is no key of the map for a whole root.
MissingNodeAsRoot == Num(100)

\* What the lookup of an id that is no key of the map returns.
MissingNodeValue == Zero

RECURSIVE getTruePercentage(_, _, _, _, _, _)
RECURSIVE SumParents(_, _, _, _, _, _, _, _)

\* node.parents.forEach(...) from position i, with totalPercentage so far.
SumParents(nodes, memo, node, i, totalPercentage, stack, options, evaluated) ==
    IF i > Len(node.parents) THEN Ok(nodes, memo, totalPercentage, evaluated)
    ELSE LET Added(p) ==
                 IF ~p.ok THEN p
                 ELSE SumParents(p.nodes, p.memo, node, i + 1,
                                 RAdd(totalPercentage, ParentContribution(node, p.val)),
                                 stack, options, p.evaluated)
         IN  Added(getTruePercentage(nodes, memo, node.parents[i], stack, options,
                                     evaluated))

getTruePercentage(nodes, memo, nodeId, stack, options, evaluated) ==
    IF Memoized(memo, nodeId) THEN Ok(nodes, memo, memo[nodeId], evaluated)
    ELSE IF nodeId \notin DOMAIN nodes
         THEN Ok(nodes, memo, MissingNodeValue, evaluated)
    ELSE IF nodeId \in stack THEN Fail("RangeError")
    ELSE LET Summed(s) ==
                 IF ~s.ok THEN s
                 ELSE Ok(s.nodes, (nodeId :> s.val) @@ s.memo, s.val, s.evaluated)
             Normalized(r) ==
                 IF ~r.ok THEN Fail(r.err)
                 ELSE LET node == r.node
                          nodes1 == [nodes EXCEPT ![nodeId] = node]
                      IN  IF Len(node.parents) = 0
                          THEN Ok(nodes1, (nodeId :> RootContribution(node)) @@ memo,
                                  RootContribution(node), Append(evaluated, nodeId))
                          ELSE Summed(SumParents(nodes1, memo, node, 1, Zero,
                                                 stack \cup {nodeId}, options,
                                                 Append(evaluated, nodeId)))
         IN  Normalized(normalizeNode(nodeId, nodes[nodeId], options))

\* for (const nodeId in nodesWithTruePercentage) ... from position i of the key order.
RECURSIVE CalcFrom(_, _, _, _, _)
CalcFrom(doc, memo, i, options, evaluated) ==
    IF i > Len(doc.order)
    THEN [ok |-> TRUE, err |-> "", doc |-> doc, evaluated |-> evaluated]
    ELSE LET nodeId == doc.order[i]
             Computed(r) ==
                 IF ~r.ok THEN Fail(r.err)
                 ELSE CalcFrom([doc EXCEPT !.nodes =
                                   [r.nodes EXCEPT
                                       ![nodeId].true_percentage_of_total = r.val]],
                               r.memo, i + 1, options, r.evaluated)
         IN  Computed(getTruePercentage(doc.nodes, memo, nodeId, {}, options,
                                        evaluated))

\* calculateTruePercentages(nodes, options); the map travels with its key order.
calculateTruePercentages(doc, options) == CalcFrom(doc, <<>>, 1, options, <<>>)

(***************************************************************************)
(* JSON.stringify and documentsAreEqual.  The serialization lists the      *)
(* members of doc.nodes in key order, so two documents with the same       *)
(* members in a different key order serialize differently.                 *)
(***************************************************************************)
JSONstringify(doc) ==
    [i \in 1..Len(doc.order) |-> <<doc.order[i], doc.nodes[doc.order[i]]>>]

documentsAreEqual(a, b) == JSONstringify(a) = JSONstringify(b)

(***************************************************************************)
(* applyPatch(doc, parsedPatches, true, false): RFC 6902 on a deep copy,   *)
(* aborting on the first operation that cannot be applied.                 *)
(*   [op |-> "add", id, node]            add /nodes/<id>                   *)
(*   [op |-> "remove", id]               remove /nodes/<id>                *)
(*   [op |-> "replace", id, field, node] replace /nodes/<id>/<field> by    *)
(*                                       the value of that field in node   *)
(*   [op |-> "test", id, field, node]    test /nodes/<id>/<field>          *)
(***************************************************************************)
RemoveKey(doc, id) ==
    [order |-> SelectSeq(doc.order, LAMBDA k : k # id),
     nodes |-> [k \in DOMAIN doc.nodes \ {id} |-> doc.nodes[k]]]

\* obj[key] = value: an existing key keeps its place, a new key goes last.
SetKey(doc, id, node) ==
    IF id \in DOMAIN doc.nodes
    THEN [doc EXCEPT !.nodes[id] = node]
    ELSE [order |-> Append(doc.order, id), nodes |-> doc.nodes @@ (id :> node)]

GetField(node, field) ==
    CASE field = "graph" -> node.graph
      [] field = "status" -> node.status
      [] field = "parents" -> node.parents
      [] field = "percentage_of_parent" -> node.percentage_of_parent

SetField(node, field, from) ==
    CASE field = "graph" -> [node EXCEPT !.graph = from.graph]
      [] field = "status" -> [node EXCEPT !.status = from.status]
      [] field = "parents" -> [node EXCEPT !.parents = from.parents]
      [] field = "percentage_of_parent" ->
            [node EXCEPT !.percentage_of_parent = from.percentage_of_parent]

\* Whether the property /nodes/<id>/<field> exists.
HasField(doc, id, field) ==
    /\ id \in DOMAIN doc.nodes
    /\ CASE field = "graph" -> doc.nodes[id].graph # Undefined
         [] field = "status" -> doc.nodes[id].status # Undefined
         [] field = "parents" -> doc.nodes[id].parents # NoParents
         [] field = "percentage_of_parent" -> doc.nodes[id].percentage_of_parent # NoNumber

\* Operations applied without validation: what cannot be applied is skipped.
applyOperationUnvalidated(doc, o) ==
    CASE o.op = "add" -> [ok |-> TRUE, err |-> "", doc |-> SetKey(doc, o.id, o.node)]
      [] o.op = "remove" -> [ok |-> TRUE, err |-> "", doc |-> RemoveKey(doc, o.id)]
      [] o.op = "replace" ->
            [ok |-> TRUE, err |-> "",
             doc |-> IF HasField(doc, o.id, o.field)
                     THEN [doc EXCEPT !.nodes[o.id] = SetField(@, o.field, o.node)]
                     ELSE doc]
      [] o.op = "test" -> [ok |-> TRUE, err |-> "", doc |-> doc]

applyOperation(doc, o) ==
    CASE o.op = "add" -> [ok |-> TRUE, err |-> "", doc |-> SetKey(doc, o.id, o.node)]
      [] o.op = "remove" ->
            IF o.id \in DOMAIN doc.nodes
            THEN [ok |-> TRUE, err |-> "", doc |-> RemoveKey(doc, o.id)]
            ELSE Fail("PatchApplicationError")
      [] o.op = "replace" ->
            IF HasField(doc, o.id, o.field)
            THEN [ok |-> TRUE, err |-> "",
                  doc |-> [doc EXCEPT !.nodes[o.id] = SetField(@, o.field, o.node)]]
            ELSE Fail("PatchApplicationError")
      [] o.op = "test" ->
            IF HasField(doc, o.id, o.field)
               /\ GetField(doc.nodes[o.id], o.field) = GetField(o.node, o.field)
            THEN [ok |-> TRUE, err |-> "", doc |-> doc]
            ELSE Fail("PatchApplicationError")

RECURSIVE ApplyFrom(_, _, _)
ApplyFrom(doc, ops, i) ==
    IF i > Len(ops) THEN [ok |-> TRUE, err |-> "", doc |-> doc]
    ELSE LET Applied(r) == IF ~r.ok THEN r ELSE ApplyFrom(r.doc, ops, i + 1)
         IN  Applied(applyOperation(doc, ops[i]))

applyPatch(doc, ops) == ApplyFrom(doc, ops, 1)

(***************************************************************************)
(* Percentage squishing.                                                   *)
(***************************************************************************)
\* The <<parentId, nodeId>> pairs in the order buildParentToChildrenMap meets
\* them: nodes in key order, each node's parents in list order.
RECURSIVE ParentPairsFrom(_, _)
ParentPairsFrom(doc, i) ==
    IF i > Len(doc.order) THEN <<>>
    ELSE LET nodeId == doc.order[i]
             ps == doc.nodes[nodeId].parents
         IN  [j \in 1..Len(ps) |-> <<ps[j], nodeId>>] \o ParentPairsFrom(doc, i + 1)

\* The distinct first components of a list of pairs, in order of first occurrence.
RECURSIVE FirstOccurrences(_, _)
FirstOccurrences(pairs, seen) ==
    IF pairs = <<>> THEN <<>>
    ELSE IF Head(pairs)[1] \in seen THEN FirstOccurrences(Tail(pairs), seen)
    ELSE <<Head(pairs)[1]>> \o
         FirstOccurrences(Tail(pairs), seen \cup {Head(pairs)[1]})

\* buildParentToChildrenMap: parent id -> list of the ids that name it in parents
\* (one entry per reference), with the insertion order of the parent ids.
buildParentToChildrenMap(doc) ==
    LET pairs == ParentPairsFrom(doc, 1)
        parentIds == {pairs[i][1] : i \in 1..Len(pairs)}
        childrenOf(parentId) ==
            LET mine == SelectSeq(pairs, LAMBDA pr : pr[1] = parentId)
            IN  [i \in 1..Len(mine) |-> mine[i][2]]
    IN  [order |-> FirstOccurrences(pairs, {}),
         children |-> [parentId \in parentIds |-> childrenOf(parentId)]]

\* (originalParentMap[parentId] || []).length
OriginalCount(originalParentMap, parentId) ==
    IF parentId \in DOMAIN originalParentMap.children
    THEN Len(originalParentMap.children[parentId]) ELSE 0

\* A comparison that also fires when a parent lost children.
HasChangedChildren(originalParentMap, newParentMap, parentId) ==
    Len(newParentMap.children[parentId]) # OriginalCount(originalParentMap, parentId)

\* newChildren.length > originalChildren.length
HasNewChildren(originalParentMap, newParentMap, parentId) ==
    Len(newParentMap.children[parentId]) > OriginalCount(originalParentMap, parentId)

\* affectedParents, in the insertion order of the Set.
affectedParents(originalParentMap, newParentMap) ==
    SelectSeq(newParentMap.order,
              LAMBDA parentId : HasNewChildren(originalParentMap, newParentMap, parentId))

\* A split that counts one child too many.
newPercentageOffByOne(children) == Rat(100, Len(children) + 1)

\* const newPercentage = 100 / children.length
newPercentage(children) == Rat(100, Len(children))

\* children.forEach(childId => nodes[childId].percentage_of_parent = newPercentage)
RECURSIVE SetChildren(_, _, _, _)
SetChildren(doc, children, i, pct) ==
    IF i > Len(children) THEN doc
    ELSE SetChildren(
            IF children[i] \in DOMAIN doc.nodes
            THEN [doc EXCEPT !.nodes[children[i]].percentage_of_parent = pct]
            ELSE doc,
            children, i + 1, pct)

\* affectedParents.forEach(...) from position i.
RECURSIVE SquishFrom(_, _, _, _)
SquishFrom(doc, newParentMap, affected, i) ==
    IF i > Len(affected) THEN doc
    ELSE LET children == newParentMap.children[affected[i]]
         IN  SquishFrom(SetChildren(doc, children, 1, newPercentage(children)),
                        newParentMap, affected, i + 1)

\* The whole "Percentage Squishing Logic" block.
Squish(originalDoc, patchedDoc) ==
    LET originalParentMap == buildParentToChildrenMap(originalDoc)
        newParentMap == buildParentToChildrenMap(patchedDoc)
    IN  SquishFrom(patchedDoc, newParentMap,
                   affectedParents(originalParentMap, newParentMap), 1)

(***************************************************************************)
(* Storage collaborator and tool handlers.  A handler is an operator from  *)
(* the stored state and its arguments to the stored state after the call   *)
(* and the result envelope (kept in last).                                 *)
(*   fault: the storage call that fails during this call, or "none".       *)
(***************************************************************************)
NoCall ==
    [op |-> "none", status |-> "none", error |-> "", version_id |-> 0,
     updated |-> FALSE, was_created_now |-> FALSE,
     preLive |-> EmptyDoc, preVersions |-> <<>>]

Envelope(op, status, error, version_id, updated, stored, vers) ==
    [op |-> op, status |-> status, error |-> error, version_id |-> version_id,
     updated |-> updated, was_created_now |-> FALSE,
     preLive |-> stored, preVersions |-> vers]

\* The catch block of a handler: a failure envelope, nothing stored.
Caught(op, error, stored, vers) ==
    [live |-> stored, versions |-> vers,
     last |-> Envelope(op, "failed", error, 0, FALSE, stored, vers)]

\* getGraphDocument: fetch the row, then enforce the contract on it.
getGraphDocument(stored, fault) ==
    IF fault = "fetch" THEN Fail("StorageError")
    ELSE enforceGraphContractOnDocument(stored)

\* fetchGraphDocumentVersion: null (found = FALSE) for an unknown id.
fetchGraphDocumentVersion(vers, versionId, fault) ==
    IF fault = "fetchVersion" THEN Fail("StorageError")
    ELSE IF versionId \notin 1..Len(vers)
         THEN [ok |-> TRUE, err |-> "", found |-> FALSE, doc |-> EmptyDoc]
    ELSE LET Found(e) ==
                 IF ~e.ok THEN Fail(e.err)
                 ELSE [ok |-> TRUE, err |-> "", found |-> TRUE, doc |-> e.doc]
         IN  Found(enforceGraphContractOnDocument(vers[versionId]))

\* The id of the version created last instead of first.
getLatestGraphDocumentVersionId(vers) == Len(vers)

\* getEarliestGraphDocumentVersionId: 0 stands for null.
getEarliestGraphDocumentVersionId(vers) == IF Len(vers) = 0 THEN 0 ELSE 1

\* A version insert that overwrites the latest version when there is one.
UpdateThenReplaceVersion(op, document, stored, vers, fault) ==
    IF fault = "update" THEN Caught(op, "StorageError", stored, vers)
    ELSE IF fault = "createVersion"
         THEN [live |-> document, versions |-> vers,
               last |-> Envelope(op, "failed", "StorageError", 0, TRUE, stored, vers)]
    ELSE IF Len(vers) = 0
         THEN [live |-> document, versions |-> <<document>>,
               last |-> Envelope(op, "ok", "", 1, TRUE, stored, vers)]
    ELSE [live |-> document, versions |-> [vers EXCEPT ![Len(vers)] = document],
          last |-> Envelope(op, "ok", "", Len(vers), TRUE, stored, vers)]

\* updateGraphDocument then createGraphDocumentVersion, as both mutating
\* handlers end: the update is committed before the version insert is tried.
UpdateThenCreateVersion(op, document, stored, vers, fault) ==
    IF fault = "update" THEN Caught(op, "StorageError", stored, vers)
    ELSE IF fault = "createVersion"
         THEN [live |-> document, versions |-> vers,
               last |-> Envelope(op, "failed", "StorageError", 0, TRUE, stored, vers)]
    ELSE [live |-> document, versions |-> Append(vers, document),
          last |-> Envelope(op, "ok", "", Len(vers) + 1, TRUE, stored, vers)]

\* const hasChanges = !this.documentsAreEqual(originalDoc, patchedDoc)
hasChanges(originalDoc, patchedDoc) == ~documentsAreEqual(originalDoc, patchedDoc)

\* The document patch_graph_document computes from the fetched document:
\* applyPatch, enforceGraphContractOnDocument, calculateTruePercentages, squishing.
PatchedDocument(doc, ops) ==
    LET Calculated(c) ==
            IF ~c.ok THEN c
            ELSE [ok |-> TRUE, err |-> "", doc |-> Squish(doc, c.doc)]
        Enforced(e) ==
            IF ~e.ok THEN e
            ELSE Calculated(calculateTruePercentages(e.doc, WithIds(Keys(e.doc))))
        Applied(a) ==
            IF ~a.ok THEN a
            ELSE Enforced(enforceGraphContractOnDocument(a.doc))
    IN  Applied(applyPatch(doc, ops))

\* patch_graph_document from the point where doc has been fetched: stored and
\* vers are what the store holds when the handler writes.
\* patches: [json |-> "invalid" | "object" | "array", ops |-> the parsed array]
PatchFetched(doc, stored, vers, patches, fault) ==
    IF patches.json = "invalid" THEN Caught("patch", "InvalidJson", stored, vers)
    ELSE IF patches.json # "array" THEN Caught("patch", "NotArray", stored, vers)
    ELSE LET Patched(r) ==
                 IF ~r.ok THEN Caught("patch", r.err, stored, vers)
                 ELSE IF ~hasChanges(doc, r.doc)
                      THEN [live |-> stored, versions |-> vers,
                            last |-> Envelope("patch", "ok", "", 0, FALSE, stored, vers)]
                      ELSE UpdateThenCreateVersion("patch", r.doc, stored, vers, fault)
         IN  Patched(PatchedDocument(doc, patches.ops))

patch_graph_document(stored, vers, patches, fault) ==
    LET Fetched(g) ==
            IF ~g.ok THEN Caught("patch", g.err, stored, vers)
            ELSE PatchFetched(g.doc, stored, vers, patches, fault)
    IN  Fetched(getGraphDocument(stored, fault))

get_graph_document_version(stored, vers, versionId, fault) ==
    LET Fetched(v) ==
            IF ~v.ok THEN Caught("get_version", v.err, stored, vers)
            ELSE IF ~v.found THEN Caught("get_version", "VersionNotFound", stored, vers)
            ELSE [live |-> stored, versions |-> vers,
                  last |-> Envelope("get_version", "ok", "", versionId, FALSE,
                                    stored, vers)]
    IN  Fetched(fetchGraphDocumentVersion(vers, versionId, fault))

set_graph_document_to_version(stored, vers, versionId, fault) ==
    LET Current(g, v) ==
            IF ~g.ok THEN Caught("set_version", g.err, stored, vers)
            ELSE IF documentsAreEqual(g.doc, v.doc)
                 THEN [live |-> stored, versions |-> vers,
                       last |-> Envelope("set_version", "ok", "", 0, FALSE,
                                         stored, vers)]
                 ELSE UpdateThenCreateVersion("set_version", v.doc, stored, vers, fault)
        Fetched(v) ==
            IF ~v.ok THEN Caught("set_version", v.err, stored, vers)
            ELSE IF ~v.found THEN Caught("set_version", "VersionNotFound", stored, vers)
            ELSE Current(getGraphDocument(stored, fault), v)
    IN  Fetched(fetchGraphDocumentVersion(vers, versionId, fault))

get_or_create_default_graph_version(stored, vers, fault) ==
    IF fault = "fetchVersion" THEN Caught("default_version", "StorageError", stored, vers)
    ELSE LET existingVersionId == getEarliestGraphDocumentVersionId(vers)
         IN  IF existingVersionId # 0
             THEN [live |-> stored, versions |-> vers,
                   last |-> Envelope("default_version", "ok", "", existingVersionId,
                                     FALSE, stored, vers)]
             ELSE LET Fetched(g) ==
                          IF ~g.ok THEN Caught("default_version", g.err, stored, vers)
                          ELSE IF fault = "createVersion"
                               THEN Caught("default_version", "StorageError",
                                           stored, vers)
                          ELSE [live |-> stored, versions |-> Append(vers, g.doc),
                                last |-> [Envelope("default_version", "ok", "",
                                                   Len(vers) + 1, FALSE, stored, vers)
                                             EXCEPT !.was_created_now = TRUE]]
                  IN  Fetched(getGraphDocument(stored, fault))

(***************************************************************************)
(* Inputs.                                                                 *)
(***************************************************************************)
NodeIds == {"a", "b"}

\* "p" is an id that is never a key of the document.
ParentLists == {<<>>, <<"p">>, <<"p", "a">>}

GraphInputs == {"main", "a", "b"}

PctInputs == {Num(100), Num(40)}

InputNode(status, parents, graph, pct) ==
    [type |-> ALLOWED_NODE_TYPE, status |-> status, parents |-> parents,
     graph |-> graph, percentage_of_parent |-> pct,
     true_percentage_of_total |-> NoNumber]

\* Nodes a patch may add: every parents list with every container at 100 percent,
\* then a padded "main", a node without graph, and an unknown status.
NodeInputs ==
    {InputNode("in-progress", ps, g, Num(100)) : ps \in ParentLists, g \in GraphInputs}
    \cup {InputNode("in-progress", <<>>, " main ", Num(100)),
          InputNode("in-progress", <<>>, Undefined, Num(100))}
    \cup {InputNode("bogus", <<>>, g, Num(100)) : g \in {"a", "b"}}

Blank == InputNode(Undefined, NoParents, Undefined, NoNumber)

AddOps == {[op |-> "add", id |-> id, field |-> "", node |-> n] :
              id \in NodeIds, n \in NodeInputs}

RemoveOps == {[op |-> "remove", id |-> id, field |-> "", node |-> Blank] : id \in NodeIds}

ReplaceOps ==
    {[op |-> "replace", id |-> id, field |-> "graph",
      node |-> [Blank EXCEPT !.graph = g]] :
         id \in NodeIds, g \in GraphInputs \cup {" main "}}
    \cup
    {[op |-> "replace", id |-> id, field |-> "parents",
      node |-> [Blank EXCEPT !.parents = ps]] :
         id \in NodeIds, ps \in ParentLists \cup {<<"p", "p">>, <<"a">>}}
    \cup
    {[op |-> "replace", id |-> id, field |-> "percentage_of_parent",
      node |-> [Blank EXCEPT !.percentage_of_parent = x]] : id \in NodeIds, x \in PctInputs}

TestOps ==
    {[op |-> "test", id |-> id, field |-> "graph",
      node |-> [Blank EXCEPT !.graph = "main"]] : id \in NodeIds}

SingleOps == AddOps \cup RemoveOps \cup ReplaceOps \cup TestOps

\* Patches of one operation; a removal followed by an add of the same key;
\* a removal followed by a test.
OpLists ==
    {<<>>} \cup {<<o>> : o \in SingleOps}
    \cup {<<o1, o2>> \in RemoveOps \X AddOps : o1.id = o2.id}
    \cup (RemoveOps \X TestOps)

PatchInputs ==
    {[json |-> "array", ops |-> ops] : ops \in OpLists}
    \cup {[json |-> "invalid", ops |-> <<>>], [json |-> "object", ops |-> <<>>]}

\* The storage call of a handler that fails, if any.
StorageFaults == {"none", "fetch", "fetchVersion", "update", "createVersion"}

VersionIds == 1..(MaxVersions + 1)

(***************************************************************************)
(* The stored state before the first call: an empty document or a seeded   *)
(* one, as persisted (normalized, percentages computed), and no version.   *)
(* The seeded document holds a root "a" and its child "b" inside "a".      *)
(***************************************************************************)
SeedDoc ==
    calculateTruePercentages(
        [order |-> <<"a", "b">>,
         nodes |-> ("a" :> InputNode("in-progress", <<>>, "main", Num(100))) @@ ("b" :> InputNode("in-progress", <<"a">>, "a", Num(100)))],
        NoOptions).doc

\* Two siblings under "p", as persisted after the second one was added.
SiblingsDoc ==
    calculateTruePercentages(
        [order |-> <<"a", "b">>,
         nodes |-> ("a" :> InputNode("in-progress", <<"p">>, "main", Rat(100, 2)))
                   @@ ("b" :> InputNode("in-progress", <<"p">>, "main", Rat(100, 2)))],
        NoOptions).doc

InitDocs == {EmptyDoc, SeedDoc, SiblingsDoc}

\* Two callers of patch_graph_document, none of which has called yet.
Callers == {"c1", "c2"}

NoCalls ==
    [c \in Callers |->
        [phase |-> "idle", patches |-> [json |-> "array", ops |-> <<>>],
         doc |-> EmptyDoc, patched |-> EmptyDoc, seen |-> 0, wrote |-> 0, result |-> NoCall]]

\* The summary tables are empty and no summary service is deployed.
NoReply == [op |-> "none"]

NoSummaryService ==
    /\ messages = <<>>
    /\ summaries = <<>>
    /\ deployed = "none"
    /\ reply = NoReply
    /\ uniqueIndex = "none"

\* No call of calculateTruePercentages yet.
NoResult == [calls |-> 0, options |-> NoOptions, first |-> Fail(""), second |-> Fail("")]

Init ==
    /\ live \in InitDocs
    /\ versions = <<>>
    /\ last = NoCall
    /\ pin = EmptyDoc
    /\ pout = NoResult
    /\ faultBudget = 0
    /\ inflight = NoCalls
    /\ NoSummaryService

Commit(outcome) ==
    /\ live' = outcome.live
    /\ versions' = outcome.versions
    /\ last' = outcome.last
    /\ UNCHANGED <<pin, pout, inflight, summaryVars>>

\* A storage call fails only while the behaviour has faults left.
MayFail(fault) ==
    /\ fault = "none" \/ faultBudget > 0
    /\ faultBudget' = IF fault = "none" THEN faultBudget ELSE faultBudget - 1

CanGrow == Len(versions) < MaxVersions

\* No result is on its way to the caller: the server takes the next call.
Idle == last = NoCall

PatchGraphDocument ==
    /\ Idle
    /\ CanGrow
    /\ \E fault \in StorageFaults :
          /\ MayFail(fault)
          /\ \E patches \in PatchInputs :
                \E outcome \in {patch_graph_document(live, versions, patches, fault)} :
                    Commit(outcome)

GetGraphDocumentVersion ==
    /\ Idle
    /\ \E fault \in StorageFaults :
          /\ MayFail(fault)
          /\ \E versionId \in VersionIds :
                \E outcome \in {get_graph_document_version(live, versions, versionId, fault)} :
                    Commit(outcome)

SetGraphDocumentToVersion ==
    /\ Idle
    /\ CanGrow
    /\ \E fault \in StorageFaults :
          /\ MayFail(fault)
          /\ \E versionId \in VersionIds :
                \E outcome \in {set_graph_document_to_version(live, versions, versionId, fault)} :
                    Commit(outcome)

\* Creates a version only when there is none: needs no room below the bound.
GetOrCreateDefaultGraphVersion ==
    /\ Idle
    /\ \E fault \in StorageFaults :
          /\ MayFail(fault)
          /\ \E outcome \in {get_or_create_default_graph_version(live, versions, fault)} :
                Commit(outcome)

\* return { content: [...] }: the result envelope reaches the caller.
ReturnResult ==
    /\ ~Idle
    /\ last' = NoCall
    /\ UNCHANGED <<live, versions, pin, pout, faultBudget, inflight, summaryVars>>

Next ==
    \/ PatchGraphDocument
    \/ GetGraphDocumentVersion
    \/ SetGraphDocumentToVersion
    \/ GetOrCreateDefaultGraphVersion
    \/ ReturnResult

Spec == Init /\ [][Next]_vars

\* The same server with storage calls that may fail.
InitFaults ==
    /\ live \in InitDocs
    /\ versions = <<>>
    /\ last = NoCall
    /\ pin = EmptyDoc
    /\ pout = NoResult
    /\ faultBudget = MaxFaults
    /\ inflight = NoCalls
    /\ NoSummaryService

SpecFaults == InitFaults /\ [][Next]_vars

(***************************************************************************)
(* Vocabulary of the properties.                                           *)
(***************************************************************************)
\* The server takes the next call, and the call may store a document.
Callable == Idle /\ CanGrow

\* Deep equality of two documents: the same keys with the same values,
\* whatever the key order.
DeepEqual(a, b) == a.nodes = b.nodes

\* The Graph Contract on one node of a document with the given keys.
GraphValueOk(nodeId, node, keys) ==
    /\ node.graph # Undefined
    /\ Trim(node.graph) # ""
    /\ Trim(node.graph) # nodeId
    /\ Trim(node.graph) = "main" \/ Trim(node.graph) \in keys

StatusValueOk(node) ==
    node.status \in {Undefined, "", "pending", "Pending"}
    \/ Trim(node.status) \in {"not-started", "in-progress", "completed"}

TypeValueOk(node) ==
    node.type \in {Undefined, "", "objectiveNode", "ObjectiveNode"}

SatisfiesContract(nodeId, node, keys) ==
    TypeValueOk(node) /\ StatusValueOk(node) /\ GraphValueOk(nodeId, node, keys)

DocSatisfiesContract(doc) ==
    \A k \in DOMAIN doc.nodes : SatisfiesContract(k, doc.nodes[k], DOMAIN doc.nodes)

ContractErrors ==
    {"InvalidNodeType", "InvalidStatus", "MissingGraphMembership", "EmptyGraphValue",
     "SelfContainment", "UnknownGraphContainer"}

\* Number of entries of parents lists of doc that name parentId.
RefCount(doc, parentId) ==
    LET refs(k) == IF doc.nodes[k].parents = NoParents THEN {}
                   ELSE {i \in 1..Len(doc.nodes[k].parents) :
                            doc.nodes[k].parents[i] = parentId}
        RECURSIVE Sum(_)
        Sum(ks) == IF ks = {} THEN 0
                   ELSE LET k == CHOOSE x \in ks : TRUE
                        IN  Cardinality(refs(k)) + Sum(ks \ {k})
    IN  Sum(DOMAIN doc.nodes)

ParentIdsOf(doc) ==
    UNION {IF doc.nodes[k].parents = NoParents THEN {} ELSE Range(doc.nodes[k].parents) :
              k \in DOMAIN doc.nodes}

\* The parent ids with more child references in after than in before.
GainedParents(before, after) ==
    {q \in ParentIdsOf(after) :
        RefCount(after, q) >
            (IF q \in ParentIdsOf(before) THEN RefCount(before, q) ELSE 0)}

ChildrenOf(doc, parentId) ==
    {k \in DOMAIN doc.nodes :
        doc.nodes[k].parents # NoParents /\ parentId \in Range(doc.nodes[k].parents)}

ArrayPatches == {p \in PatchInputs : p.json = "array"}

PatchOutcome(patches) == patch_graph_document(live, versions, patches, "none")

Unchanged(outcome) == outcome.live = live /\ outcome.versions = versions

Rejected(outcome) == outcome.last.status = "failed" /\ Unchanged(outcome)

(***************************************************************************)
(* patch_graph_document: all or nothing.                                   *)
(***************************************************************************)
OpApplicable(doc, o) ==
    CASE o.op = "add" -> TRUE
      [] o.op = "remove" -> o.id \in DOMAIN doc.nodes
      [] o.op = "replace" -> HasField(doc, o.id, o.field)
      [] o.op = "test" ->
            HasField(doc, o.id, o.field)
            /\ GetField(doc.nodes[o.id], o.field) = GetField(o.node, o.field)

\* Some operation of ops, from position i on, cannot be applied.
RECURSIVE SomeOpFails(_, _, _)
SomeOpFails(doc, ops, i) ==
    IF i > Len(ops) THEN FALSE
    ELSE IF ~OpApplicable(doc, ops[i]) THEN TRUE
    ELSE SomeOpFails(applyOperation(doc, ops[i]).doc, ops, i + 1)

MustBeRejected(patches) ==
    \/ patches.json # "array"
    \/ SomeOpFails(live, patches.ops, 1)
    \/ LET a == applyPatch(live, patches.ops)
       IN  a.ok /\ ~DocSatisfiesContract(a.doc)

\* C1: a patch_graph_document call whose patches string is not valid JSON or
\* not an array, one of whose operations cannot be applied, or whose patched
\* document has a node violating the contract, returns a failure and leaves
\* the live document and the list of versions exactly as they were.
C1_RejectedPatchChangesNothing ==
    /\ (last.op = "patch" /\ last.status = "failed" /\ last.error # "StorageError")
          => (live = last.preLive /\ versions = last.preVersions)
    /\ Callable => \A patches \in PatchInputs :
                   MustBeRejected(patches) => Rejected(PatchOutcome(patches))

\* A rejected patch of each kind, on a stored state that is not empty.
C1_Witness ==
    /\ last.op = "patch" /\ last.status = "failed"
    /\ last.error \in {"PatchApplicationError", "UnknownGraphContainer"}
    /\ last.preLive # EmptyDoc /\ Len(last.preVersions) > 0

\* C2: a patch whose resulting document is deep-equal to the document before
\* the patch succeeds without updating the live document and without creating
\* a version; so the document an updating patch stores is never deep-equal to
\* the one it replaced.
C2_EqualResultIsNoOp ==
    (last.op = "patch" /\ last.status = "ok" /\ last.updated)
        => ~DeepEqual(live, last.preLive)

(***************************************************************************)
(* Containment.                                                            *)
(***************************************************************************)
HasSelfContainedNode(doc) ==
    \E k \in DOMAIN doc.nodes :
        doc.nodes[k].graph # Undefined /\ Trim(doc.nodes[k].graph) = k

\* Self-containment is the only way in which nodes of doc violate the contract.
OnlySelfContainmentViolations(doc) ==
    \A k \in DOMAIN doc.nodes :
        \/ SatisfiesContract(k, doc.nodes[k], DOMAIN doc.nodes)
        \/ /\ TypeValueOk(doc.nodes[k]) /\ StatusValueOk(doc.nodes[k])
           /\ doc.nodes[k].graph # Undefined /\ Trim(doc.nodes[k].graph) = k

\* C3 as stated: every patch whose resulting document has a node whose graph
\* is its own id fails with the self-containment error, and nothing is stored.
C3_SelfContainmentError ==
    Idle => \A patches \in ArrayPatches :
                LET a == applyPatch(live, patches.ops)
                    outcome == PatchOutcome(patches)
                IN  (a.ok /\ HasSelfContainedNode(a.doc))
                       => (Rejected(outcome) /\ outcome.last.error = "SelfContainment")

\* C3: every patch whose resulting document has a node whose graph is its own
\* id fails with a contract error and nothing is stored; the error is the
\* self-containment error when self-containment is the document's only
\* violation of the contract.
C3_SelfContainmentRejected ==
    Callable => \A patches \in ArrayPatches :
                LET a == applyPatch(live, patches.ops)
                    outcome == PatchOutcome(patches)
                IN  (a.ok /\ HasSelfContainedNode(a.doc))
                       => /\ Rejected(outcome)
                          /\ outcome.last.error \in ContractErrors
                          /\ OnlySelfContainmentViolations(a.doc)
                                => outcome.last.error = "SelfContainment"

C3_Witness ==
    /\ last.op = "patch" /\ last.status = "failed" /\ last.error = "SelfContainment"
    /\ live = last.preLive /\ versions = last.preVersions /\ live # EmptyDoc

\* The container of k, of the container of k, ... within fuel hops.
RECURSIVE ContainersOf(_, _, _)
ContainersOf(doc, k, fuel) ==
    IF fuel = 0 \/ k \notin DOMAIN doc.nodes \/ doc.nodes[k].graph = Undefined THEN {}
    ELSE LET g == Trim(doc.nodes[k].graph)
         IN  {g} \cup ContainersOf(doc, g, fuel - 1)

HasContainmentCycle(doc) ==
    \E k \in DOMAIN doc.nodes :
        /\ Trim(doc.nodes[k].graph) # k
        /\ k \in ContainersOf(doc, k, Cardinality(DOMAIN doc.nodes))

StoredDocuments == {live} \cup Range(versions)

\* C4: no document with a containment cycle across distinct nodes is ever
\* stored, as live document or as version.
C4_NoContainmentCycleStored ==
    \A doc \in StoredDocuments : ~HasContainmentCycle(doc)

GraphMembershipHolds(doc) ==
    \A k \in DOMAIN doc.nodes :
        \/ doc.nodes[k].graph = "main"
        \/ doc.nodes[k].graph \in DOMAIN doc.nodes /\ doc.nodes[k].graph # k

RemovalPatch(id) ==
    [json |-> "array",
     ops |-> <<[op |-> "remove", id |-> id, field |-> "", node |-> Blank]>>]

\* C5: in every stored document the graph of every node is "main" or the id
\* of another node of the same document; and the patch that removes a node
\* which another node names as its graph is rejected with the
\* unknown-container error, nothing being stored.
C5_GraphMembership ==
    /\ \A doc \in StoredDocuments : GraphMembershipHolds(doc)
    /\ Callable => \A id \in DOMAIN live.nodes :
                   (\E k \in DOMAIN live.nodes \ {id} : live.nodes[k].graph = id)
                      => LET outcome == PatchOutcome(RemovalPatch(id))
                         IN  /\ Rejected(outcome)
                             /\ outcome.last.error = "UnknownGraphContainer"

\* The removal of a container that is still named was rejected.
C5_Witness ==
    /\ last.op = "patch" /\ last.status = "failed"
    /\ last.error = "UnknownGraphContainer"
    /\ \E k \in DOMAIN live.nodes : live.nodes[k].graph \in DOMAIN live.nodes
    /\ GraphMembershipHolds(live)

(***************************************************************************)
(* Percentage squishing.                                                   *)
(***************************************************************************)
ChildCount(doc, parentId) == Cardinality(ChildrenOf(doc, parentId))

\* The parents with more children (nodes naming them) in after than in before.
ParentsWithMoreChildren(before, after) ==
    {q \in ParentIdsOf(after) : ChildCount(after, q) > ChildCount(before, q)}

PatchStored == last.op = "patch" /\ last.status = "ok" /\ last.updated

\* C6 as stated: after a successful patch, every current child of every
\* parent that has more children than before has percentage_of_parent equal to
\* 100 divided by that parent's number of children, children of several such
\* parents included.
C6_EveryChildOfEveryGainingParent ==
    PatchStored =>
        \A q \in ParentsWithMoreChildren(last.preLive, live) :
            \A c \in ChildrenOf(live, q) :
                live.nodes[c].percentage_of_parent = Rat(100, ChildCount(live, q))

\* C6: after a successful patch, every current child of a parent that is
\* named by more entries of parents lists than before has percentage_of_parent
\* equal to 100 divided by the number of entries naming one of the child's
\* parents that gained entries: the parent itself when it is the only one.
C6_SquishedToAGainingParent ==
    PatchStored =>
        \A q \in GainedParents(last.preLive, live) :
            \A c \in ChildrenOf(live, q) :
                LET gaining == GainedParents(last.preLive, live)
                                  \cap Range(live.nodes[c].parents)
                IN  /\ live.nodes[c].percentage_of_parent
                          \in {Rat(100, RefCount(live, x)) : x \in gaining}
                    /\ gaining = {q}
                          => live.nodes[c].percentage_of_parent
                                = Rat(100, RefCount(live, q))

\* A second child was added under a parent: both are at 50 percent.
C6_Witness ==
    /\ PatchStored
    /\ \E q \in GainedParents(last.preLive, live) :
          /\ RefCount(live, q) = 2
          /\ Cardinality(ChildrenOf(live, q)) = 2
          /\ \A c \in ChildrenOf(live, q) : live.nodes[c].percentage_of_parent = Rat(100, 2)

C10_NewVersionIffDifferent ==
    Idle => \A versionId \in 1..Len(versions) :
                LET outcome == set_graph_document_to_version(live, versions, versionId, "none")
                IN  /\ outcome.last.status = "ok"
                    /\ IF DeepEqual(versions[versionId], live)
                       THEN ~outcome.last.updated /\ Unchanged(outcome)
                       ELSE /\ outcome.live = versions[versionId]
                            /\ outcome.versions = Append(versions, versions[versionId])

(***************************************************************************)
(* calculateTruePercentages on its own: a node map is drawn, the function  *)
(* is called on it and then called again on the map the first call left    *)
(* (the function writes into the node objects of its argument).            *)
(***************************************************************************)
\* "z" is no key of any map; " a " is "a" with padding.
ParentsOfA == {<<>>, <<"z">>}
ParentsOfB == {<<>>, <<"a">>}
ParentsOfC == {<<"a">>, <<"a", "b">>, <<"b", "z">>, <<" a ">>, <<"d">>}
ParentsOfD == {<<"b", "c">>, <<"c", "c">>, <<"c">>, <<"d">>, NoParents}

PctOfA == {Num(100), NoNumber}
PctOfD == {Num(100), Num(40)}

KeyOrders == {<<"a", "b", "c", "d">>, <<"d", "c", "b", "a">>}

\* One departure from the contract at most: "c" inside itself, "d" inside a
\* node that does not exist, or an unknown status on "b".
Flaws == {"none", "self", "unknown", "status"}

MapInput(order, pa, pb, pc, pd, xa, xd, flaw) ==
    [order |-> order,
     nodes |->
        ("a" :> InputNode("completed", pa, "main", xa))
        @@ ("b" :> InputNode(IF flaw = "status" THEN "bogus" ELSE "in-progress",
                             pb, "a", Rat(100, 2)))
        @@ ("c" :> InputNode("in-progress", pc,
                             IF flaw = "self" THEN "c" ELSE "a", Rat(100, 2)))
        @@ ("d" :> InputNode("not-started", pd,
                             IF flaw = "unknown" THEN "zz" ELSE "main", xd))]

MapInputs ==
    {MapInput(order, pa, pb, pc, pd, xa, xd, flaw) :
        order \in KeyOrders, pa \in ParentsOfA, pb \in ParentsOfB, pc \in ParentsOfC,
        pd \in ParentsOfD, xa \in PctOfA, xd \in PctOfD, flaw \in Flaws}

InitPct ==
    /\ live = EmptyDoc
    /\ versions = <<>>
    /\ last = NoCall
    /\ pin \in MapInputs
    /\ pout = NoResult
    /\ faultBudget = 0
    /\ inflight = NoCalls
    /\ NoSummaryService

CalculateTruePercentages ==
    /\ pout.calls = 0
    /\ \E options \in {NoOptions, WithIds(Keys(pin))} :
          pout' = [calls |-> 1, options |-> options,
                   first |-> calculateTruePercentages(pin, options),
                   second |-> Fail("")]
    /\ UNCHANGED <<live, versions, last, pin, faultBudget, inflight, summaryVars>>

CalculateAgain ==
    /\ pout.calls = 1
    /\ pout.first.ok
    /\ pout' = [pout EXCEPT !.calls = 2,
                            !.second = calculateTruePercentages(pout.first.doc,
                                                                pout.options)]
    /\ UNCHANGED <<live, versions, last, pin, faultBudget, inflight, summaryVars>>

NextPct == CalculateTruePercentages \/ CalculateAgain

SpecPct == InitPct /\ [][NextPct]_vars

\* The parents of k, of the parents of k, ... within fuel hops.
RECURSIVE AncestorsOf(_, _, _)
AncestorsOf(doc, k, fuel) ==
    IF fuel = 0 \/ k \notin DOMAIN doc.nodes \/ doc.nodes[k].parents = NoParents THEN {}
    ELSE Range(doc.nodes[k].parents)
         \cup UNION {AncestorsOf(doc, q, fuel - 1) : q \in Range(doc.nodes[k].parents)}

Acyclic(doc) ==
    \A k \in DOMAIN doc.nodes :
        k \notin AncestorsOf(doc, k, Cardinality(DOMAIN doc.nodes))

\* The reference definition: for an id that is no key, 0; for a node without
\* parents, its percentage_of_parent (0 when it has none); otherwise the sum
\* over its parents of (percentage_of_parent / 100) * the parent's value.
RECURSIVE ReferenceTruePercentage(_, _)
RECURSIVE ReferenceSum(_, _, _)
ReferenceSum(doc, k, i) ==
    IF i > Len(doc.nodes[k].parents) THEN Zero
    ELSE RAdd(RMul(RDivInt(doc.nodes[k].percentage_of_parent, 100),
                   ReferenceTruePercentage(doc, doc.nodes[k].parents[i])),
              ReferenceSum(doc, k, i + 1))

ReferenceTruePercentage(doc, k) ==
    IF k \notin DOMAIN doc.nodes THEN Zero
    ELSE IF doc.nodes[k].parents = NoParents \/ doc.nodes[k].parents = <<>>
         THEN (IF doc.nodes[k].percentage_of_parent = NoNumber THEN Zero
               ELSE doc.nodes[k].percentage_of_parent)
    ELSE ReferenceSum(doc, k, 1)

AgreesWithReference ==
    /\ pout.first.ok
    /\ \A k \in DOMAIN pin.nodes :
          pout.first.doc.nodes[k].true_percentage_of_total
             = ReferenceTruePercentage(pin, k)

\* Every node passes the checks that calculateTruePercentages runs on it
\* under the given options, and names its parents without padding.
ContractNormal(doc, options) ==
    \A k \in DOMAIN doc.nodes :
        /\ TypeValueOk(doc.nodes[k]) /\ StatusValueOk(doc.nodes[k])
        /\ doc.nodes[k].graph # Undefined
        /\ Trim(doc.nodes[k].graph) \notin {"", k}
        /\ options.has => Trim(doc.nodes[k].graph) \in options.ids \cup {"main"}
        /\ doc.nodes[k].parents # NoParents
              => \A q \in Range(doc.nodes[k].parents) : q # "" /\ Trim(q) = q

\* C8 as stated: on every acyclic node map calculateTruePercentages returns,
\* for every node, the value of the reference definition, a parent that is no
\* key of the map contributing 0 and raising no error.
C8_AgreesOnEveryAcyclicMap ==
    (pout.calls >= 1 /\ Acyclic(pin)) => AgreesWithReference

\* C8: on every acyclic node map whose nodes satisfy the node contract and
\* name their parents without padding, calculateTruePercentages returns, for
\* every node, the value of the reference definition, a parent that is no key
\* of the map contributing 0 and raising no error.
C8_AgreesOnContractNormalMaps ==
    (pout.calls >= 1 /\ Acyclic(pin) /\ ContractNormal(pin, pout.options))
        => AgreesWithReference

\* A diamond with a parent that is no key of the map was computed.
C8_Witness ==
    /\ pout.calls >= 1 /\ pout.first.ok
    /\ Acyclic(pin) /\ ContractNormal(pin, pout.options)
    /\ pin.nodes["c"].parents = <<"b", "z">>
    /\ pin.nodes["d"].parents = <<"b", "c">>
    /\ pout.first.doc.nodes["d"].true_percentage_of_total \notin {Zero, NoNumber}

\* C9: calling calculateTruePercentages again on the map a successful call
\* left succeeds and leaves the same map: the same true_percentage_of_total
\* on every node, and every other property as it was.
C9_SecondCallChangesNothing ==
    pout.calls = 2 => (pout.second.ok /\ pout.second.doc = pout.first.doc)

C9_Witness ==
    /\ pout.calls = 2 /\ pout.second.ok
    /\ pin.nodes["d"].parents = <<"b", "c">>
    /\ pout.second.doc.nodes["d"].true_percentage_of_total \notin {Zero, NoNumber}
    /\ pout.second.doc.nodes["a"].true_percentage_of_total = Num(100)

(***************************************************************************)
(* Versions.                                                               *)
(***************************************************************************)
\* get_graph_document_version answers with the stored version, or not found.
VersionReadable(versionId) ==
    LET outcome == get_graph_document_version(live, versions, versionId, "none")
        fetched == fetchGraphDocumentVersion(versions, versionId, "none")
    IN  IF versionId \in 1..Len(versions)
        THEN /\ outcome.last.status = "ok" /\ outcome.last.version_id = versionId
             /\ fetched.ok /\ fetched.found /\ fetched.doc = versions[versionId]
             /\ Unchanged(outcome)
        ELSE /\ outcome.last.status = "failed"
             /\ outcome.last.error = "VersionNotFound"
             /\ Unchanged(outcome)

\* C11: no step modifies or deletes an existing version or lowers the number
\* of versions, and in every state get_graph_document_version of an existing
\* id answers with the document stored under that id, of an unknown id with
\* "Version not found".
C11_VersionsAppendOnly ==
    /\ [](\A versionId \in VersionIds : VersionReadable(versionId))
    /\ [][/\ Len(versions') >= Len(versions)
          /\ \A i \in 1..Len(versions) : versions'[i] = versions[i]]_vars

\* The first of two different versions was read after the second was created.
C11_Witness ==
    /\ last.op = "get_version" /\ last.status = "ok" /\ last.version_id = 1
    /\ Len(versions) = 2 /\ versions[1] # versions[2]

DefaultVersionOutcome == get_or_create_default_graph_version(live, versions, "none")

\* C12: get_or_create_default_graph_version with a version present returns the
\* id of the earliest version, was_created_now false, and stores nothing; with
\* none it appends one version holding the live document and returns its id,
\* was_created_now true; a second call right after returns the same id.
C12_DefaultVersion ==
    Idle =>
        LET first == DefaultVersionOutcome
            second == get_or_create_default_graph_version(first.live, first.versions, "none")
        IN  /\ first.last.status = "ok" /\ first.live = live
            /\ IF Len(versions) > 0
               THEN /\ first.last.version_id = 1
                    /\ ~first.last.was_created_now
                    /\ first.versions = versions
               ELSE /\ first.last.was_created_now
                    /\ first.versions = <<live>>
                    /\ first.last.version_id = 1
            /\ second.last.status = "ok"
            /\ second.last.version_id = first.last.version_id
            /\ ~second.last.was_created_now
            /\ second.versions = first.versions /\ second.live = first.live

\* The default version was created from a live document that is not empty,
\* and asked for again once a second version existed.
C12_Witness ==
    /\ last.op = "default_version" /\ last.status = "ok"
    /\ ~last.was_created_now /\ last.version_id = 1
    /\ Len(versions) = 2 /\ versions[1] # EmptyDoc

\* C13: a patch_graph_document or set_graph_document_to_version call in which
\* a storage call fails returns a failure and leaves the live document and
\* the versions as they were before the call.
C13_StorageFailureCommitsNothing ==
    (last.op \in {"patch", "set_version"} /\ last.error = "StorageError")
        => /\ last.status = "failed"
           /\ live = last.preLive
           /\ versions = last.preVersions

(***************************************************************************)
(* Two concurrent patch_graph_document calls.  A handler is suspended at   *)
(* each storage call: the fetch of the live document, the update of the    *)
(* live document and the insert of the version are separate steps, and     *)
(* the steps of the two callers interleave.  Each caller calls once.       *)
(***************************************************************************)
RacePatches == {patches \in ArrayPatches : Len(patches.ops) = 1}

\* Updates of the live document made so far.
UpdatesSoFar == Cardinality({c \in Callers : inflight[c].wrote > 0})

\* A handler that fetches the live document again right before it writes.
FreshDocument(c) == live

\* let doc = await this.getGraphDocument(): the document the handler holds
\* from its fetch on.
StaleDocument(c) == inflight[c].doc

InitRace ==
    /\ live \in InitDocs
    /\ versions = <<>>
    /\ last = NoCall
    /\ pin = EmptyDoc
    /\ pout = NoResult
    /\ faultBudget = 0
    /\ inflight = NoCalls
    /\ NoSummaryService

\* await this.getGraphDocument()
ReadForPatch(c) ==
    /\ inflight[c].phase = "idle"
    /\ \E patches \in RacePatches :
          \E g \in {getGraphDocument(live, "none")} :
              /\ g.ok
              /\ inflight' = [inflight EXCEPT ![c] =
                                [@ EXCEPT !.phase = "read", !.patches = patches,
                                          !.doc = g.doc, !.seen = UpdatesSoFar]]
    /\ UNCHANGED <<live, versions, last, pin, pout, faultBudget, summaryVars>>

\* Everything up to await this.updateGraphDocument(patchedDoc), or up to the
\* return of a rejected or changeless patch.
WriteForPatch(c) ==
    /\ inflight[c].phase = "read"
    /\ \E outcome \in {PatchFetched(StaleDocument(c), live, versions,
                                    inflight[c].patches, "none")} :
          IF outcome.last.updated
          THEN /\ live' = outcome.live
               /\ inflight' = [inflight EXCEPT ![c] =
                                 [@ EXCEPT !.phase = "updated",
                                           !.patched = outcome.live,
                                           !.wrote = UpdatesSoFar + 1,
                                           !.result = outcome.last]]
          ELSE /\ live' = live
               /\ inflight' = [inflight EXCEPT ![c] =
                                 [@ EXCEPT !.phase = "done", !.result = outcome.last]]
    /\ UNCHANGED <<versions, last, pin, pout, faultBudget, summaryVars>>

\* A handler that versions the document that is live when it inserts.
LiveDocumentAtInsert(c) == live

\* createGraphDocumentVersion(patchedDoc), createGraphDocumentVersion(versionDoc):
\* the document the handler has just written.
VersionDocument(c) == inflight[c].patched

\* await this.createGraphDocumentVersion(patchedDoc), then the return.
VersionForPatch(c) ==
    /\ inflight[c].phase = "updated"
    /\ versions' = Append(versions, VersionDocument(c))
    /\ inflight' = [inflight EXCEPT ![c] =
                      [@ EXCEPT !.phase = "done",
                                !.result = [@ EXCEPT !.version_id = Len(versions) + 1]]]
    /\ UNCHANGED <<live, last, pin, pout, faultBudget, summaryVars>>

NextRace ==
    \E c \in Callers : ReadForPatch(c) \/ WriteForPatch(c) \/ VersionForPatch(c)

SpecRace == InitRace /\ [][NextRace]_vars

\* Both calls are over, both fetched before any update, first wrote first.
RacedInOrder(first, second) ==
    /\ first # second
    /\ inflight[first].phase = "done" /\ inflight[second].phase = "done"
    /\ inflight[first].seen = 0 /\ inflight[second].seen = 0
    /\ inflight[first].wrote = 1 /\ inflight[second].wrote = 2

\* C14: when two patch_graph_document calls both fetch the live document
\* before either updates it, both report success, and the final live document
\* is the one written last: the document the second writer computed from what
\* it fetched, as if the first writer had not called.
C14_LastWriteWins ==
    \A first \in Callers, second \in Callers :
        RacedInOrder(first, second)
            => /\ inflight[first].result.status = "ok"
               /\ inflight[second].result.status = "ok"
               /\ inflight[first].doc = inflight[second].doc
               /\ \E r \in {PatchedDocument(inflight[first].doc,
                                           inflight[second].patches.ops)} :
                      r.ok /\ live = r.doc
               /\ Len(versions) = 2

\* A lost update: the first writer added a node that the final live document
\* does not hold.
C14_Witness ==
    \E first \in Callers, second \in Callers :
        /\ RacedInOrder(first, second)
        /\ \E k \in DOMAIN versions[1].nodes :
              k \notin DOMAIN inflight[first].doc.nodes /\ k \notin DOMAIN live.nodes
        /\ inflight[first].result.status = "ok"

(***************************************************************************)
(* Conversation messages.  The message table maps the id of each row to    *)
(* [conversation_id, parent_message_id, created_at]; created_at is an      *)
(* instant, counted in half days.  The worker's chat_messages table is the *)
(* same table with the columns thread_id and parent_id.                    *)
(***************************************************************************)
Null == "<null>"

MessageIds == {"m1", "m2", "m3"}

\* JavaScript truthiness of an id: null and the empty string end a walk.
Truthy(id) == id \notin {Null, ""}

\* A walk prepending each row, root first.
UnshiftAncestorId(ancestorIds, rowId) == <<rowId>> \o ancestorIds

\* ancestorIds.push(row.id)
PushAncestorId(ancestorIds, rowId) == Append(ancestorIds, rowId)

\* fetchMessageAncestorRow: the row with this id in this conversation.
fetchMessageAncestorRow(rows, conversationId, messageId) ==
    LET normalizedConversationId == Trim(conversationId)
        normalizedMessageId == Trim(messageId)
    IN  IF normalizedConversationId = "" \/ normalizedMessageId = ""
        THEN Fail("EmptyId")
        ELSE IF /\ normalizedMessageId \in DOMAIN rows
                /\ rows[normalizedMessageId].conversation_id = normalizedConversationId
             THEN [ok |-> TRUE, err |-> "", id |-> normalizedMessageId,
                   parent_id |-> rows[normalizedMessageId].parent_message_id]
             ELSE Fail("MessageNotFound")

RECURSIVE AncestralFrom(_, _, _, _, _)
AncestralFrom(rows, conversationId, currentMessageId, ancestorIds, visited) ==
    IF ~Truthy(currentMessageId) THEN [ok |-> TRUE, err |-> "", ids |-> ancestorIds]
    ELSE IF currentMessageId \in visited THEN Fail("CircularParent")
    ELSE LET row == fetchMessageAncestorRow(rows, conversationId, currentMessageId)
         IN  IF ~row.ok THEN row
             ELSE AncestralFrom(rows, conversationId, row.parent_id,
                                PushAncestorId(ancestorIds, row.id),
                                visited \cup {currentMessageId})

\* getAncestralMessageIds of the worker.
getAncestralMessageIds(rows, conversationId, messageId) ==
    IF Trim(conversationId) = "" \/ Trim(messageId) = "" THEN Fail("EmptyId")
    ELSE AncestralFrom(rows, Trim(conversationId), Trim(messageId), <<>>, {})

RECURSIVE AncestryFrom(_, _, _, _, _)
AncestryFrom(rows, conversationId, currentId, chain, guard) ==
    IF ~Truthy(currentId) THEN [ok |-> TRUE, err |-> "", ids |-> chain]
    ELSE IF currentId \in guard THEN Fail("CircularParent")
    ELSE IF currentId \notin DOMAIN rows THEN Fail("MessageNotFound")
    ELSE IF rows[currentId].conversation_id # conversationId THEN Fail("ConversationMismatch")
    ELSE AncestryFrom(rows, conversationId, rows[currentId].parent_message_id,
                      Append(chain, currentId), guard \cup {currentId})

RECURSIVE ensureChronological(_, _)
\* ensureChronological: the messages in ascending created_at order, messages
\* of equal created_at in the order given.
ensureChronological(rows, ids) ==
    IF ids = <<>> THEN <<>>
    ELSE LET first == CHOOSE i \in 1..Len(ids) :
                          /\ \A j \in 1..Len(ids) :
                                rows[ids[i]].created_at <= rows[ids[j]].created_at
                          /\ \A j \in 1..i - 1 :
                                rows[ids[j]].created_at > rows[ids[i]].created_at
         IN  <<ids[first]>>
             \o ensureChronological(rows, SubSeq(ids, 1, first - 1)
                                           \o SubSeq(ids, first + 1, Len(ids)))

\* SummaryCoordinator.fetchMessageAncestry: the chain in chronological order.
fetchMessageAncestry(rows, conversationId, messageId) ==
    LET walked == AncestryFrom(rows, conversationId, messageId, <<>>, {})
    IN  IF ~walked.ok THEN walked
        ELSE [walked EXCEPT !.ids = ensureChronological(rows, walked.ids)]

\* SummariesService.fetchMessages: the rows of the conversation.
fetchMessages(rows, conversationId) ==
    {id \in DOMAIN rows : rows[id].conversation_id = conversationId}

RECURSIVE BuildFrom(_, _, _, _)
BuildFrom(rows, map, cursor, ancestry) ==
    IF cursor \notin map \/ cursor \in ancestry THEN ancestry
    ELSE IF ~Truthy(rows[cursor].parent_message_id) THEN ancestry \cup {cursor}
    ELSE BuildFrom(rows, map, rows[cursor].parent_message_id, ancestry \cup {cursor})

\* SummariesService.buildAncestry over the fetched messages of the conversation.
buildAncestry(rows, conversationId, currentMessageId) ==
    LET map == fetchMessages(rows, conversationId)
    IN  IF currentMessageId \notin map THEN Fail("MessageNotFound")
        ELSE [ok |-> TRUE, err |-> "", ids |-> BuildFrom(rows, map, currentMessageId, {})]

(***************************************************************************)
(* The calendar, in UTC.  Periods are named by the number of their first  *)
(* day: days 0..29 are one calendar month and days 30..60 the next, and    *)
(* day 0 starts a week.                                                    *)
(***************************************************************************)
\* The day an instant falls on.
startOfDay(instant) == instant \div 2

startOfWeek(day) == day - (day % 7)

startOfMonth(day) == IF day >= 30 THEN 30 ELSE 0

startOfNextMonth(monthStart) == IF monthStart >= 30 THEN 61 ELSE 30

RECURSIVE Ascending(_)
\* The days of a set in ascending order.
Ascending(days) ==
    IF days = {} THEN <<>>
    ELSE LET first == CHOOSE d \in days : \A e \in days : d <= e
         IN  <<first>> \o Ascending(days \ {first})

Periods(level, starts) ==
    [i \in 1..Len(starts) |-> [level |-> level, period_start |-> starts[i]]]

(***************************************************************************)
(* Stored summaries: the rows of conversation_summaries in the order they  *)
(* were created, [conversation_id, level, period_start, content,           *)
(* created_by_message_id].  content is "placeholder" for the sentence of   *)
(* an empty period and "summary" otherwise.                                *)
(***************************************************************************)
\* The stored rows of a (level, period_start), oldest first.
StoredFor(stored, level, periodStart) ==
    SelectSeq(stored, LAMBDA row : /\ row.conversation_id = "conv"
                                   /\ row.level = level
                                   /\ row.period_start = periodStart)

NoGeneration == [generated |-> <<>>, reused |-> <<>>, skipped |-> <<>>]

\* The size of the raw tail.
DEFAULT_TAIL_LIMIT == 6

\* The messages of today, and the last DEFAULT_TAIL_LIMIT messages of the
\* days before, of a branch in chronological order.
rawToday(rows, allMessages, todayStart) ==
    SelectSeq(allMessages, LAMBDA id : startOfDay(rows[id].created_at) = todayStart)

\* A tail that keeps every message of the days before today.
wholeTail(rows, allMessages, todayStart) ==
    SelectSeq(allMessages, LAMBDA id : startOfDay(rows[id].created_at) < todayStart)

rawTail(rows, allMessages, todayStart) ==
    LET Sliced(preToday) ==
            SubSeq(preToday,
                   IF Len(preToday) > DEFAULT_TAIL_LIMIT
                   THEN Len(preToday) - DEFAULT_TAIL_LIMIT + 1 ELSE 1,
                   Len(preToday))
    IN  Sliced(SelectSeq(allMessages,
                         LAMBDA id : startOfDay(rows[id].created_at) < todayStart))

\* An assembly that puts the raw segments first.
rawBeforeSummaries(systemSummaries) ==
    <<[type |-> "raw", segment |-> "today"], [type |-> "raw", segment |-> "tail"]>>
    \o [i \in 1..Len(systemSummaries) |->
           [type |-> "summary", level |-> systemSummaries[i].level,
            period_start |-> systemSummaries[i].period_start]]

\* assembly_order: the included summaries, then the raw segments.
assemblyOrder(systemSummaries) ==
    [i \in 1..Len(systemSummaries) |->
        [type |-> "summary", level |-> systemSummaries[i].level,
         period_start |-> systemSummaries[i].period_start]]
    \o <<[type |-> "raw", segment |-> "today"], [type |-> "raw", segment |-> "tail"]>>

(***************************************************************************)
(* SummaryCoordinator (src/src/summaries/service.ts).                      *)
(***************************************************************************)
\* buildContext over the ancestry of the requested message.
buildContext(rows, conversationId, messageId) ==
    LET Fetched(ancestry) ==
            IF ~ancestry.ok THEN ancestry
            ELSE LET currentMessage == ancestry.ids[Len(ancestry.ids)]
                     todayStart == startOfDay(rows[currentMessage].created_at)
                 IN  [ok |-> TRUE, err |-> "",
                      currentMessage |-> currentMessage,
                      todayStart |-> todayStart,
                      yesterdayStart |-> todayStart - 1,
                      currentWeekStart |-> startOfWeek(todayStart),
                      currentMonthStart |-> startOfMonth(todayStart),
                      ancestryIds |-> Range(ancestry.ids),
                      rawToday |-> rawToday(rows, ancestry.ids, todayStart),
                      rawTail |-> rawTail(rows, ancestry.ids, todayStart),
                      dayMap |-> [day \in {startOfDay(rows[id].created_at) :
                                               id \in Range(ancestry.ids)}
                                            \cup {todayStart - 1} |->
                                     {id \in Range(ancestry.ids) :
                                         startOfDay(rows[id].created_at) = day}]]
    IN  Fetched(fetchMessageAncestry(rows, conversationId, messageId))

\* buildRequirements: months, then weeks, then days, then yesterday.
buildRequirements(context) ==
    LET before == {key \in DOMAIN context.dayMap : key < context.todayStart}
        days == {key \in before : /\ key # context.yesterdayStart
                                  /\ key >= context.currentWeekStart}
        weeks == {startOfWeek(key) : key \in before}
        months == {startOfMonth(key) : key \in before}
    IN  Periods("MONTH", Ascending({m \in months : m < context.currentMonthStart}))
        \o Periods("WEEK", Ascending({w \in weeks : /\ w < context.currentWeekStart
                                                   /\ w >= context.currentMonthStart}))
        \o Periods("DAY", Ascending(days))
        \o (IF context.yesterdayStart \in before
            THEN Periods("DAY", <<context.yesterdayStart>>) ELSE <<>>)

\* A provenance check that accepts every stored row.
evaluateAnyProvenance(stored, requirement, ancestryIds) ==
    IF StoredFor(stored, requirement.level, requirement.period_start) = <<>>
    THEN "missing" ELSE "exists"

\* An evaluation that never finds a summary to reuse.
evaluateAlwaysMissing(stored, requirement, ancestryIds) == "missing"

\* evaluateExisting on the summary map loaded from the stored rows.
evaluateExisting(stored, requirement, ancestryIds) ==
    LET found == StoredFor(stored, requirement.level, requirement.period_start)
    IN  IF found = <<>> THEN "missing"
        ELSE IF found[Len(found)].created_by_message_id \notin ancestryIds THEN "invalid"
        ELSE "exists"

\* upsertSummary on (conversation_id, level, period_start).
upsertSummary(stored, record) ==
    IF \E i \in 1..Len(stored) : /\ stored[i].conversation_id = record.conversation_id
                                 /\ stored[i].level = record.level
                                 /\ stored[i].period_start = record.period_start
    THEN [i \in 1..Len(stored) |->
             IF /\ stored[i].conversation_id = record.conversation_id
                /\ stored[i].level = record.level
                /\ stored[i].period_start = record.period_start
             THEN record ELSE stored[i]]
    ELSE Append(stored, record)

\* childSummaries: for each day key of the aggregate, the DAY row the summary
\* map holds, whoever wrote it.
childSummaries(stored, dayKeys) ==
    {StoredFor(stored, "DAY", key)[Len(StoredFor(stored, "DAY", key))] :
        key \in {k \in dayKeys : StoredFor(stored, "DAY", k) # <<>>}}

\* generateForRequirement: state is [stored, generation, resolved,
\* aggregated]; resolved lists the periods in the order their evaluation
\* ended, with the outcome, and aggregated lists the weeks and months that
\* were generated, each with the DAY rows its body was built from.
generateForRequirement(rows, context, state, requirement) ==
    LET found == StoredFor(state.stored, requirement.level, requirement.period_start)
        dayKeys == {key \in DOMAIN context.dayMap :
                       /\ key < context.todayStart
                       /\ IF requirement.level = "WEEK"
                          THEN startOfWeek(key) = requirement.period_start
                          ELSE startOfMonth(key) = requirement.period_start}
        empty == IF requirement.level = "DAY"
                 THEN context.dayMap[requirement.period_start] = {}
                 ELSE \A key \in dayKeys : StoredFor(state.stored, "DAY", key) = <<>>
    IN  IF evaluateExisting(state.stored, requirement, context.ancestryIds) = "exists"
        THEN [state EXCEPT
                 !.generation.reused =
                     Append(@, [level |-> requirement.level,
                                period_start |-> requirement.period_start,
                                created_by_message_id |->
                                    found[Len(found)].created_by_message_id]),
                 !.resolved =
                     Append(@, [level |-> requirement.level,
                                period_start |-> requirement.period_start,
                                outcome |-> "reused"])]
        ELSE [aggregated |->
                 IF requirement.level = "DAY" THEN state.aggregated
                 ELSE Append(state.aggregated,
                             [level |-> requirement.level,
                              period_start |-> requirement.period_start,
                              children |-> childSummaries(state.stored, dayKeys)]),
              stored |-> upsertSummary(state.stored,
                            [conversation_id |-> "conv",
                             level |-> requirement.level,
                             period_start |-> requirement.period_start,
                             content |-> IF empty THEN "placeholder" ELSE "summary",
                             created_by_message_id |-> context.currentMessage]),
              generation |-> [state.generation EXCEPT !.generated =
                 Append(@, [level |-> requirement.level,
                            period_start |-> requirement.period_start,
                            created_by_message_id |-> context.currentMessage])],
              resolved |-> Append(state.resolved,
                                  [level |-> requirement.level,
                                   period_start |-> requirement.period_start,
                                   outcome |-> "generated"])]

\* collectSystemSummaries: the requirements that have a summary in the map,
\* months, weeks, days, then yesterday.
collectSystemSummaries(ordered, stored) ==
    SelectSeq(ordered,
              LAMBDA requirement :
                  StoredFor(stored, requirement.level, requirement.period_start) # <<>>)

\* buildComposedContext of the coordinator.
buildComposedContext(context, ordered, stored) ==
    LET Collected(systemSummaries) ==
            [system_summaries |-> systemSummaries,
             raw_messages_today |-> context.rawToday,
             raw_tail_across_boundary |->
                 SelectSeq(context.rawTail,
                           LAMBDA id : id \notin Range(context.rawToday)),
             assembly_order |-> assemblyOrder(systemSummaries)]
    IN  Collected(collectSystemSummaries(ordered, stored))

RECURSIVE GenerateFrom(_, _, _, _, _)
GenerateFrom(rows, context, state, ordered, i) ==
    IF i > Len(ordered) THEN state
    ELSE GenerateFrom(rows, context,
                      generateForRequirement(rows, context, state, ordered[i]),
                      ordered, i + 1)

\* SummaryCoordinator.composeContext in mode 'intelligent'.
composeContext(rows, stored, conversationId, messageId) ==
    LET Generated(context, ordered, done) ==
            [ok |-> TRUE, err |-> "", required |-> ordered,
             todayStart |-> context.todayStart,
             generation |-> done.generation, resolved |-> done.resolved,
             aggregated |-> done.aggregated, stored |-> done.stored]
            @@ buildComposedContext(context, ordered, done.stored)
        Ordered(context, ordered) ==
            Generated(context, ordered,
                      GenerateFrom(rows, context,
                                   [stored |-> stored, generation |-> NoGeneration,
                                    resolved |-> <<>>, aggregated |-> <<>>],
                                   ordered, 1))
        Built(context) ==
            IF ~context.ok THEN [ok |-> FALSE, err |-> context.err, stored |-> stored]
            ELSE Ordered(context, buildRequirements(context))
    IN  Built(buildContext(rows, conversationId, messageId))

\* SummaryCoordinator.listRequired.
listRequired(rows, stored, conversationId, messageId) ==
    LET Ordered(context, ordered) ==
            [ok |-> TRUE, err |-> "", stored |-> stored,
             todayStart |-> context.todayStart,
             required |-> [i \in 1..Len(ordered) |->
                 [level |-> ordered[i].level,
                  period_start |-> ordered[i].period_start,
                  status |-> evaluateExisting(stored, ordered[i],
                                              context.ancestryIds)]]]
        Built(context) ==
            IF ~context.ok THEN [ok |-> FALSE, err |-> context.err, stored |-> stored]
            ELSE Ordered(context, buildRequirements(context))
    IN  Built(buildContext(rows, conversationId, messageId))

(***************************************************************************)
(* SummariesService (src/src/summaries.ts).                                *)
(***************************************************************************)
RECURSIVE SortedByCreatedAt(_, _)
\* messages.filter(...).sort(...): the branch in ascending created_at order.
SortedByCreatedAt(rows, ids) ==
    IF ids = {} THEN <<>>
    ELSE LET first == CHOOSE id \in ids :
                          \A other \in ids : rows[id].created_at <= rows[other].created_at
         IN  <<first>> \o SortedByCreatedAt(rows, ids \ {first})

\* buildConversationContext over the fetched messages of the conversation.
buildConversationContext(rows, conversationId, currentMessageId) ==
    LET Built(ancestry) ==
            IF ~ancestry.ok THEN ancestry
            ELSE LET todayStart == startOfDay(rows[currentMessageId].created_at)
                 IN  [ok |-> TRUE, err |-> "",
                      currentMessage |-> currentMessageId,
                      todayStart |-> todayStart,
                      yesterdayStart |-> todayStart - 1,
                      currentWeekStart |-> startOfWeek(todayStart),
                      currentMonthStart |-> startOfMonth(todayStart),
                      ancestrySet |-> ancestry.ids,
                      branchMessagesSorted |-> SortedByCreatedAt(rows, ancestry.ids),
                      messagesByDay |-> [day \in {startOfDay(rows[id].created_at) :
                                                      id \in ancestry.ids} |->
                                            {id \in ancestry.ids :
                                                startOfDay(rows[id].created_at) = day}]]
    IN  Built(buildAncestry(rows, conversationId, currentMessageId))

\* A planner that requires yesterday only when the branch wrote on it.
requiredPeriodsWithMessages(context) ==
    LET dayStarts == DOMAIN context.messagesByDay
    IN  Periods("MONTH", Ascending({startOfMonth(d) :
                   d \in {e \in dayStarts : e < context.currentMonthStart}}))
        \o Periods("WEEK", Ascending({startOfWeek(d) :
                   d \in {e \in dayStarts : /\ e < context.currentWeekStart
                                             /\ startOfWeek(e) >= context.currentMonthStart}}))
        \o Periods("DAY", Ascending({d \in dayStarts : /\ d >= context.currentWeekStart
                                                        /\ d < context.todayStart}))

\* computeRequiredPeriods with the week that straddles the start of the
\* current month kept: a week is required whenever one of its days of the
\* current month, before the current week, has a message.
requiredPeriodsWithStraddlingWeek(context) ==
    LET dayStarts == DOMAIN context.messagesByDay
    IN  Periods("MONTH", Ascending({startOfMonth(d) :
                   d \in {e \in dayStarts : e < context.currentMonthStart}}))
        \o Periods("WEEK", Ascending({startOfWeek(d) :
                   d \in {e \in dayStarts : /\ e < context.currentWeekStart
                                             /\ e >= context.currentMonthStart}}))
        \o Periods("DAY", Ascending({d \in dayStarts : /\ d >= context.currentWeekStart
                                                        /\ d < context.yesterdayStart})
                          \o <<context.yesterdayStart>>)

\* computeRequiredPeriods: months, then weeks, then the days with yesterday last.
computeRequiredPeriods(context) ==
    LET dayStarts == DOMAIN context.messagesByDay
        previousDays == {start \in dayStarts : /\ start >= context.currentWeekStart
                                               /\ start < context.yesterdayStart}
        weeks == {startOfWeek(start) :
                     start \in {d \in dayStarts :
                                   /\ d < context.currentWeekStart
                                   /\ d >= context.currentMonthStart
                                   /\ startOfWeek(d) >= context.currentMonthStart}}
        months == {startOfMonth(start) :
                      start \in {d \in dayStarts : d < context.currentMonthStart}}
    IN  Periods("MONTH", Ascending(months))
        \o Periods("WEEK", Ascending(weeks))
        \o Periods("DAY", Ascending(previousDays) \o <<context.yesterdayStart>>)

\* pickSummary: the first stored row of the period written on the branch.
pickSummary(stored, level, periodStartIso, ancestry) ==
    LET candidates == StoredFor(stored, level, periodStartIso)
        reusable == SelectSeq(candidates,
                              LAMBDA row : row.created_by_message_id \in ancestry)
    IN  IF candidates = <<>> THEN [status |-> "missing"]
        ELSE IF reusable # <<>> THEN [status |-> "reused", summary |-> reusable[1]]
        ELSE [status |-> "invalid", summary |-> candidates[Len(candidates)]]

\* A result cache that never answers.
NeverCached(resultCache, key) == FALSE

\* resultCache.has(key)
ResultCached(resultCache, key) == key \in DOMAIN resultCache

\* The tail shared by ensureDaySummary, ensureWeekSummary and
\* ensureMonthSummary: skip an empty period, else reuse, else insert a row.
\* state is [stored, generation, resultCache, resolved]; resultCache maps a
\* key to whether the period has a summary, and resolved lists the periods in
\* the order their evaluation ended, with the outcome.
EnsureSummary(context, state, level, periodStart, empty, reason) ==
    LET key == <<level, periodStart>>
        pick == pickSummary(state.stored, level, periodStart, context.ancestrySet)
        entry == [level |-> level, period_start |-> periodStart]
    IN  IF empty
        THEN [state EXCEPT
                 !.generation.skipped = Append(@, entry @@ [reason |-> reason]),
                 !.resultCache = (key :> FALSE) @@ @,
                 !.resolved = Append(@, entry @@ [outcome |-> "skipped"])]
        ELSE IF pick.status = "reused"
        THEN [state EXCEPT
                 !.generation.reused = Append(@,
                     entry @@ [created_by_message_id |->
                                   pick.summary.created_by_message_id]),
                 !.resultCache = (key :> TRUE) @@ @,
                 !.resolved = Append(@, entry @@ [outcome |-> "reused"])]
        ELSE [state EXCEPT
                 !.stored = Append(@, [conversation_id |-> "conv",
                                       level |-> level,
                                       period_start |-> periodStart,
                                       content |-> "summary",
                                       created_by_message_id |-> context.currentMessage]),
                 !.generation.generated = Append(@,
                     entry @@ [created_by_message_id |-> context.currentMessage]),
                 !.resultCache = (key :> TRUE) @@ @,
                 !.resolved = Append(@, entry @@ [outcome |-> "generated"])]

ensureDaySummary(context, state, periodStart) ==
    IF ResultCached(state.resultCache, <<"DAY", periodStart>>) THEN state
    ELSE EnsureSummary(context, state, "DAY", periodStart,
                       \/ periodStart \notin DOMAIN context.messagesByDay
                       \/ context.messagesByDay[periodStart] = {},
                       "no_messages")

\* The loop over the days of a week or a month: every day is resolved, and
\* the days that have a summary are collected in daySummaries.
RECURSIVE EnsureDaysFrom(_, _, _, _, _)
EnsureDaysFrom(context, state, cursor, periodEnd, daySummaries) ==
    IF cursor >= periodEnd THEN [state |-> state, daySummaries |-> daySummaries]
    ELSE LET resolved == ensureDaySummary(context, state, cursor)
         IN  IF resolved.resultCache[<<"DAY", cursor>>]
             THEN EnsureDaysFrom(context, resolved, cursor + 1, periodEnd,
                                 Append(daySummaries, cursor))
             ELSE EnsureDaysFrom(context, resolved, cursor + 1, periodEnd,
                                 daySummaries)

\* daySummaries: the rows ensureDaySummary returned for the days collected,
\* each the row of the day that pickSummary finds on the branch.
daySummaryRows(context, stored, daySummaries) ==
    {pickSummary(stored, "DAY", daySummaries[i], context.ancestrySet).summary :
        i \in 1..Len(daySummaries)}

\* ensureWeekSummary and ensureMonthSummary: the days of the period first.
\* A week or month that is generated is logged in aggregated with the DAY
\* rows its body was built from.
ensureAggregateSummary(context, state, level, periodStart) ==
    IF ResultCached(state.resultCache, <<level, periodStart>>) THEN state
    ELSE LET periodEnd == IF level = "WEEK" THEN periodStart + 7
                          ELSE startOfNextMonth(periodStart)
             days == EnsureDaysFrom(context, state, periodStart, periodEnd, <<>>)
             Recorded(ensured) ==
                 IF Len(ensured.generation.generated)
                       = Len(days.state.generation.generated)
                 THEN ensured
                 ELSE [ensured EXCEPT !.aggregated =
                          Append(@, [level |-> level, period_start |-> periodStart,
                                     children |->
                                         daySummaryRows(context, days.state.stored,
                                                        days.daySummaries)])]
         IN  Recorded(EnsureSummary(context, days.state, level, periodStart,
                                    Len(days.daySummaries) = 0, "no_day_summaries"))

RECURSIVE EnsureFrom(_, _, _, _)
EnsureFrom(context, state, periods, i) ==
    IF i > Len(periods) THEN state
    ELSE EnsureFrom(context,
                    IF periods[i].level = "DAY"
                    THEN ensureDaySummary(context, state, periods[i].period_start)
                    ELSE ensureAggregateSummary(context, state, periods[i].level,
                                                periods[i].period_start),
                    periods, i + 1)

\* The assembly at the end of composeContextForTurn: the periods that ended
\* with a summary, and the raw messages.
assembleContext(rows, context, periods, resultCache) ==
    LET Collected(systemSummaries) ==
            [system_summaries |-> systemSummaries,
             raw_messages_today |->
                 rawToday(rows, context.branchMessagesSorted, context.todayStart),
             raw_tail_across_boundary |->
                 rawTail(rows, context.branchMessagesSorted, context.todayStart),
             assembly_order |-> assemblyOrder(systemSummaries)]
    IN  Collected(SelectSeq(periods,
                            LAMBDA period :
                                resultCache[<<period.level, period.period_start>>]))

\* SummariesService.composeContextForTurn in mode 'intelligent'.
composeContextForTurn(rows, stored, conversationId, currentMessageId) ==
    LET Ensured(context, periods, done) ==
            [ok |-> TRUE, err |-> "", required |-> periods,
             todayStart |-> context.todayStart,
             generation |-> done.generation, resolved |-> done.resolved,
             aggregated |-> done.aggregated, stored |-> done.stored]
            @@ assembleContext(rows, context, periods, done.resultCache)
        Needed(context, periods) ==
            Ensured(context, periods,
                    EnsureFrom(context,
                               [stored |-> stored, generation |-> NoGeneration,
                                resultCache |-> <<>>, resolved |-> <<>>,
                                aggregated |-> <<>>],
                               periods, 1))
        Built(context) ==
            IF ~context.ok THEN [ok |-> FALSE, err |-> context.err, stored |-> stored]
            ELSE Needed(context, computeRequiredPeriods(context))
    IN  Built(buildConversationContext(rows, conversationId, currentMessageId))

\* SummariesService.listRequiredSummaries.
listRequiredSummaries(rows, stored, conversationId, currentMessageId) ==
    LET Listed(context, periods) ==
            [ok |-> TRUE, err |-> "", stored |-> stored,
             todayStart |-> context.todayStart,
             required |-> [i \in 1..Len(periods) |->
                 [level |-> periods[i].level,
                  period_start |-> periods[i].period_start,
                  status |->
                      LET pick == pickSummary(stored, periods[i].level,
                                              periods[i].period_start,
                                              context.ancestrySet)
                      IN  IF pick.status = "reused" THEN "exists"
                          ELSE pick.status]]]
        Built(context) ==
            IF ~context.ok THEN [ok |-> FALSE, err |-> context.err, stored |-> stored]
            ELSE Listed(context, computeRequiredPeriods(context))
    IN  Built(buildConversationContext(rows, conversationId, currentMessageId))

(***************************************************************************)
(* The message tables the walks and the summary services are run on: a     *)
(* chain, a fork, a chain whose root names a parent without a row, a       *)
(* cycle, a chain with a padded and an empty parent id, and a fork whose   *)
(* root names a blank parent; a chain and a fork whose root is stored      *)
(* under another conversation; each with every choice of instants.  And a  *)
(* conversation of four messages with two branches that end a day after    *)
(* the day only one of them has a message on.                              *)
(***************************************************************************)
ParentLinks ==
    { [m1 |-> Null, m2 |-> "m1",   m3 |-> "m2",  conversation_id |-> "conv"],
      [m1 |-> Null, m2 |-> "m1",   m3 |-> "m1",  conversation_id |-> "conv"],
      [m1 |-> "m0", m2 |-> "m1",   m3 |-> "m2",  conversation_id |-> "conv"],
      [m1 |-> "m3", m2 |-> "m1",   m3 |-> "m2",  conversation_id |-> "conv"],
      [m1 |-> "",   m2 |-> " m1 ", m3 |-> "m2",  conversation_id |-> "conv"],
      [m1 |-> "  ", m2 |-> "m1",   m3 |-> "m1",  conversation_id |-> "conv"],
      [m1 |-> Null, m2 |-> "m1",   m3 |-> "m2",  conversation_id |-> "other"],
      [m1 |-> Null, m2 |-> "m1",   m3 |-> "m1",  conversation_id |-> "other"] }

\* Instants on the days 29, 31, 36, 43 and 44.
InstantSet == {58, 62, 72, 86, 87, 88, 89}

TwoBranches ==
    [m1 |-> [conversation_id |-> "conv", parent_message_id |-> Null, created_at |-> 72],
     m2 |-> [conversation_id |-> "conv", parent_message_id |-> "m1", created_at |-> 86],
     m3 |-> [conversation_id |-> "conv", parent_message_id |-> "m1", created_at |-> 89],
     m4 |-> [conversation_id |-> "conv", parent_message_id |-> "m2", created_at |-> 88]]

\* A chain written on one day, the first day of a month or of a week.
PeriodStarts ==
    { [m1 |-> [conversation_id |-> "conv", parent_message_id |-> Null,
               created_at |-> first],
       m2 |-> [conversation_id |-> "conv", parent_message_id |-> "m1",
               created_at |-> first + 1],
       m3 |-> [conversation_id |-> "conv", parent_message_id |-> "m2",
               created_at |-> first + 1]] : first \in {60, 84} }

MessageTables ==
    { [id \in MessageIds |->
          [conversation_id |-> IF id = "m1" THEN links.conversation_id ELSE "conv",
           parent_message_id |-> links[id],
           created_at |-> instants[id]]] :
        links \in ParentLinks, instants \in [MessageIds -> InstantSet] }
    \cup {TwoBranches} \cup PeriodStarts

WalkStarts == MessageIds \cup {" m3 ", "m0"}

InitSummaries ==
    /\ live = EmptyDoc
    /\ versions = <<>>
    /\ last = NoCall
    /\ pin = EmptyDoc
    /\ pout = NoResult
    /\ faultBudget = 0
    /\ inflight = NoCalls
    /\ messages \in MessageTables
    /\ summaries = <<>>
    /\ deployed \in {"SummaryCoordinator", "SummariesService"}
    /\ reply = NoReply
    /\ uniqueIndex = IF deployed = "SummaryCoordinator" THEN "period" ELSE "provenance"

\* A walk answers and stores nothing.
Walked(op, messageId, result) ==
    /\ reply' = [op |-> op, conversationId |-> "conv", messageId |-> messageId,
                 result |-> result]
    /\ UNCHANGED <<live, versions, last, pin, pout, faultBudget, inflight,
                   messages, summaries, deployed, uniqueIndex>>

GetAncestralMessageIds ==
    \E messageId \in WalkStarts :
        Walked("getAncestralMessageIds", messageId,
               getAncestralMessageIds(messages, "conv", messageId))

FetchMessageAncestry ==
    /\ deployed = "SummaryCoordinator"
    /\ \E messageId \in WalkStarts :
          Walked("fetchMessageAncestry", messageId,
                 fetchMessageAncestry(messages, "conv", messageId))

BuildAncestry ==
    /\ deployed = "SummariesService"
    /\ \E messageId \in WalkStarts :
          Walked("buildAncestry", messageId, buildAncestry(messages, "conv", messageId))

\* A call of a summary service: its answer, and the rows it left stored.
Answered(op, messageId, outcome) ==
    /\ reply' = [op |-> op, conversationId |-> "conv", messageId |-> messageId,
                 result |-> outcome, pre |-> summaries]
    /\ summaries' = outcome.stored
    /\ UNCHANGED <<live, versions, last, pin, pout, faultBudget, inflight,
                   messages, deployed, uniqueIndex>>

ListRequired ==
    /\ deployed = "SummaryCoordinator"
    /\ \E messageId \in DOMAIN messages :
          Answered("plan", messageId, listRequired(messages, summaries, "conv", messageId))

ComposeContext ==
    /\ deployed = "SummaryCoordinator"
    /\ \E messageId \in DOMAIN messages :
          Answered("compose", messageId,
                   composeContext(messages, summaries, "conv", messageId))

ListRequiredSummaries ==
    /\ deployed = "SummariesService"
    /\ \E messageId \in DOMAIN messages :
          Answered("plan", messageId,
                   listRequiredSummaries(messages, summaries, "conv", messageId))

ComposeContextForTurn ==
    /\ deployed = "SummariesService"
    /\ \E messageId \in DOMAIN messages :
          Answered("compose", messageId,
                   composeContextForTurn(messages, summaries, "conv", messageId))

NextWalks ==
    \/ GetAncestralMessageIds
    \/ FetchMessageAncestry
    \/ BuildAncestry

SpecWalks == InitSummaries /\ [][NextWalks]_vars

NextSummaries ==
    \/ ListRequired
    \/ ComposeContext
    \/ ListRequiredSummaries
    \/ ComposeContextForTurn

SpecSummaries == InitSummaries /\ [][NextSummaries]_vars

(***************************************************************************)
(* Properties of the ancestry walks.                                       *)
(***************************************************************************)
\* The row a parent link names in the requested conversation, if any.
InConversation(id) ==
    id \in DOMAIN messages /\ messages[id].conversation_id = "conv"

WalkSequences ==
    UNION {[1..n -> DOMAIN messages] : n \in 1..Cardinality(DOMAIN messages) + 1}

\* ids follows the parent links from the requested message, row by row.
FollowsLinks(ids) ==
    /\ ids[1] = Trim(reply.messageId)
    /\ \A i \in 1..Len(ids) : InConversation(ids[i])
    /\ \A i \in 1..Len(ids) - 1 :
          /\ Truthy(messages[ids[i]].parent_message_id)
          /\ Trim(messages[ids[i]].parent_message_id) = ids[i + 1]

\* ids is the whole chain: it ends at a message without a parent.
ProperChain(ids) ==
    FollowsLinks(ids) /\ ~Truthy(messages[ids[Len(ids)]].parent_message_id)

\* The links lead back to an id already walked.
LinksRevisit ==
    \E ids \in WalkSequences :
        FollowsLinks(ids) /\ \E i \in 1..Len(ids) - 1 : ids[i] = ids[Len(ids)]

\* C15: getAncestralMessageIds returns the chain of the requested message,
\* head first and root last with each id once (for A <- B <- C started at C,
\* exactly [C, B, A]); it returns nothing else; and when the parent links
\* revisit an id already walked it fails with the circular-parent error.
C15_AncestryOrder ==
    reply.op = "getAncestralMessageIds"
        => /\ \A ids \in WalkSequences :
                 ProperChain(ids) => reply.result.ok /\ reply.result.ids = ids
           /\ reply.result.ok
                 => /\ reply.result.ids \in WalkSequences
                    /\ ProperChain(reply.result.ids)
                    /\ \A i, j \in 1..Len(reply.result.ids) :
                          i # j => reply.result.ids[i] # reply.result.ids[j]
           /\ LinksRevisit => ~reply.result.ok /\ reply.result.err = "CircularParent"

\* The chain m1 <- m2 <- m3 was walked from m3.
C15_Witness ==
    /\ reply.op = "getAncestralMessageIds"
    /\ reply.messageId = "m3"
    /\ messages["m3"].parent_message_id = "m2"
    /\ messages["m2"].parent_message_id = "m1"
    /\ messages["m1"].parent_message_id = Null
    /\ reply.result.ok
    /\ reply.result.ids = <<"m3", "m2", "m1">>

\* The ids a walk returned, as a set.
WalkedIds ==
    IF reply.op = "buildAncestry" THEN reply.result.ids ELSE Range(reply.result.ids)

\* C16: an ancestry walk never returns a truncated chain: when a parent link
\* of a message on the chain resolves to no row the walk fails with the
\* message-not-found error, and when a message on the chain belongs to
\* another conversation the walk fails.
C16_NoTruncatedChain ==
    reply.op \in {"getAncestralMessageIds", "fetchMessageAncestry", "buildAncestry"}
        => /\ reply.result.ok
                 => \A id \in WalkedIds :
                       /\ InConversation(id)
                       /\ Truthy(messages[id].parent_message_id)
                             => \/ messages[id].parent_message_id \in WalkedIds
                                \/ Trim(messages[id].parent_message_id) \in WalkedIds
           /\ \A ids \in WalkSequences :
                 (/\ FollowsLinks(ids)
                  /\ Trim(messages[ids[Len(ids)]].parent_message_id)
                        \notin DOMAIN messages \cup {Null, ""})
                     => ~reply.result.ok /\ reply.result.err = "MessageNotFound"

(***************************************************************************)
(* Properties of the summary services.                                     *)
(***************************************************************************)
Planned == reply.op = "plan" /\ reply.result.ok

Composed == reply.op = "compose" /\ reply.result.ok

\* id lies on the parent chain of the requested branch head.
OnChain(id) ==
    \E ids \in WalkSequences :
        /\ ids[1] = reply.messageId
        /\ ids[Len(ids)] = id
        /\ \A i \in 1..Len(ids) - 1 : messages[ids[i]].parent_message_id = ids[i + 1]

\* The rows of a period before and after the call.
PreRows(period) == StoredFor(reply.pre, period.level, period.period_start)

PostRows(period) == StoredFor(summaries, period.level, period.period_start)

HasRowOnChain(rows) == \E i \in 1..Len(rows) : OnChain(rows[i].created_by_message_id)

\* How often a generation list names the period.
Logged(log, period) ==
    Cardinality({i \in 1..Len(log) : /\ log[i].level = period.level
                                     /\ log[i].period_start = period.period_start})

Required == Range(reply.result.required)

Invalidated(rows) == rows # <<>> /\ ~HasRowOnChain(rows)

\* C18: a required period whose stored summary has a created_by_message_id
\* off the ancestry chain of the requested head is planned as 'invalid', and
\* composing regenerates it: afterwards the summary stored for the period
\* has created_by_message_id equal to the requested head.
C18_SummaryInvalidation ==
    /\ Planned => \A period \in Required :
          Invalidated(PostRows(period)) => period.status = "invalid"
    /\ Composed => \A period \in Required :
          Invalidated(PreRows(period))
              => /\ Logged(reply.result.generation.generated, period) = 1
                 /\ PostRows(period)[Len(PostRows(period))].created_by_message_id
                        = reply.messageId

\* C19: every required period of a completed composition is named in
\* exactly one of generation.generated, generation.reused and
\* generation.skipped, and there once.
C19_ExactlyOneOutcome ==
    Composed => \A period \in Required :
        Logged(reply.result.generation.generated, period)
            + Logged(reply.result.generation.reused, period)
            + Logged(reply.result.generation.skipped, period) = 1

\* A composition with a reused and a skipped required period, and with a
\* required day that a required month covers as well.
C19_Witness ==
    /\ Composed
    /\ \E b, c \in Required :
          /\ Logged(reply.result.generation.reused, b) = 1
          /\ Logged(reply.result.generation.skipped, c) = 1
    /\ \E day, month \in Required :
          /\ day.level = "DAY" /\ month.level = "MONTH"
          /\ startOfMonth(day.period_start) = month.period_start

\* The branch of the requested head has no message on the day.
NoBranchMessages(day) ==
    \A id \in DOMAIN messages : OnChain(id) => startOfDay(messages[id].created_at) # day

\* No day summary is stored for any day of the week or month.
NoChildDaySummaries(period) ==
    \A day \in period.period_start..
               (IF period.level = "WEEK" THEN period.period_start + 7
                ELSE startOfNextMonth(period.period_start)) - 1 :
        StoredFor(summaries, "DAY", day) = <<>>

\* C20: a required day on which the branch has no message ends skipped for
\* want of messages and no row is stored for it; a required week or month
\* without child day summaries is skipped, not generated.
C20_EmptyPeriodsSkipped ==
    Composed => \A period \in Required :
        /\ (period.level = "DAY" /\ NoBranchMessages(period.period_start))
              => /\ Logged(reply.result.generation.skipped, period) = 1
                 /\ PostRows(period) = PreRows(period)
        /\ (period.level # "DAY" /\ NoChildDaySummaries(period))
              => /\ Logged(reply.result.generation.skipped, period) = 1
                 /\ Logged(reply.result.generation.generated, period) = 0

\* The days of a week or month.
DaysOf(period) ==
    period.period_start..
        (IF period.level = "WEEK" THEN period.period_start + 7
         ELSE startOfNextMonth(period.period_start)) - 1

\* The branch of the requested head has a message of the conversation on the day.
BranchDay(day) ==
    \E id \in DOMAIN messages :
        /\ OnChain(id)
        /\ messages[id].conversation_id = reply.conversationId
        /\ startOfDay(messages[id].created_at) = day

\* The periods of the composition in the order their evaluation ended.
Resolved == reply.result.resolved

\* C21: in a composition, the evaluation of a week or month ends only after
\* every day inside it on which the branch has a message was resolved in the
\* same run, as generated or reused.
C21_BottomUp ==
    Composed => \A i \in 1..Len(Resolved) :
        Resolved[i].level # "DAY" =>
            \A day \in DaysOf(Resolved[i]) :
                BranchDay(day) =>
                    \E j \in 1..(i - 1) :
                        /\ Resolved[j].level = "DAY"
                        /\ Resolved[j].period_start = day
                        /\ Resolved[j].outcome \in {"generated", "reused"}

(***************************************************************************)
(* Two callers that create the summary of one period at the same time.     *)
(* The unique index of conversation_summaries is not part of the           *)
(* repository: uniqueIndex is "none", "period" (conversation, level and    *)
(* period_start) or "provenance" (these and created_by_message_id).        *)
(***************************************************************************)
\* The row of record's unique key that is stored already.
Conflicts(stored, record, index) ==
    \E i \in 1..Len(stored) :
        /\ index # "none"
        /\ stored[i].conversation_id = record.conversation_id
        /\ stored[i].level = record.level
        /\ stored[i].period_start = record.period_start
        /\ index = "provenance"
              => stored[i].created_by_message_id = record.created_by_message_id

\* insert(insertPayload).select().single()
insertSummary(stored, record, index) ==
    IF Conflicts(stored, record, index)
    THEN [error |-> "23505", stored |-> stored]
    ELSE [error |-> "", stored |-> Append(stored, record), data |-> record]

\* The re-fetch of create_conversation_summary after a unique violation.
refetchSummary(stored, record) ==
    LET found == SelectSeq(StoredFor(stored, record.level, record.period_start),
                           LAMBDA row : row.created_by_message_id
                                            = record.created_by_message_id)
    IN  IF Len(found) = 1 THEN [ok |-> TRUE, err |-> "", summary |-> found[1]]
        ELSE Fail("SummaryAlreadyExistsNotRetrieved")

\* A root on day 43 and two replies to it on day 44.
DuplicateTables ==
    { [m1 |-> [conversation_id |-> "conv", parent_message_id |-> Null,
               created_at |-> first],
       m2 |-> [conversation_id |-> "conv", parent_message_id |-> "m1",
               created_at |-> 88],
       m3 |-> [conversation_id |-> "conv", parent_message_id |-> "m1",
               created_at |-> 89]] : first \in {86, 87} }

\* The day both branches have to summarise.
DuplicatePeriod == [level |-> "DAY", period_start |-> 43]

Services == {"create_conversation_summary", "SummaryCoordinator", "SummariesService"}

NoCreations ==
    [c \in Callers |-> [phase |-> "idle", record |-> DuplicatePeriod, seen |-> <<>>,
                        ancestry |-> {}, wrote |-> FALSE, result |-> Fail("")]]

InitDuplicates ==
    /\ live = EmptyDoc
    /\ versions = <<>>
    /\ last = NoCall
    /\ pin = EmptyDoc
    /\ pout = NoResult
    /\ faultBudget = 0
    /\ inflight = NoCreations
    /\ messages \in DuplicateTables
    /\ summaries = <<>>
    /\ deployed \in Services
    /\ reply = NoReply
    /\ uniqueIndex \in IF deployed = "SummaryCoordinator" THEN {"period"}
                       ELSE {"none", "period", "provenance"}

\* The checks of create_conversation_summary before its insert.
CheckedSummary(rows, content, messageId) ==
    IF Trim(messageId) = "" THEN Fail("EmptyId")
    ELSE IF Trim(content) = "" THEN Fail("EmptyContent")
    ELSE LET Fetched(row) ==
                 IF ~row.ok THEN row
                 ELSE [ok |-> TRUE, err |-> "", currentMessage |-> row.id,
                       ancestry |-> {}]
         IN  Fetched(fetchMessageAncestorRow(rows, "conv", messageId))

\* What a caller holds when it is about to write: the message it writes for
\* and the branch it reuses summaries of.
PreparedSummary(rows, service, content, messageId) ==
    IF service = "create_conversation_summary"
    THEN CheckedSummary(rows, content, messageId)
    ELSE IF service = "SummaryCoordinator"
    THEN LET Built(context) ==
                 IF ~context.ok THEN context
                 ELSE [ok |-> TRUE, err |-> "",
                       currentMessage |-> context.currentMessage,
                       ancestry |-> context.ancestryIds]
         IN  Built(buildContext(rows, "conv", messageId))
    ELSE LET Built(context) ==
                 IF ~context.ok THEN context
                 ELSE [ok |-> TRUE, err |-> "",
                       currentMessage |-> context.currentMessage,
                       ancestry |-> context.ancestrySet]
         IN  Built(buildConversationContext(rows, "conv", messageId))

\* A call up to the load of the stored summaries (the services) or up to the
\* check of the message (the tool).
BeginSummary(c) ==
    /\ inflight[c].phase = "idle"
    /\ \E messageId \in {"m2", "m3", "m0"}, content \in {"summary", " "} :
          /\ deployed # "create_conversation_summary"
                => content = "summary" /\ messageId # "m0"
          /\ \E prepared \in {PreparedSummary(messages, deployed, content, messageId)} :
                inflight' = [inflight EXCEPT ![c] =
                    IF ~prepared.ok
                    THEN [@ EXCEPT !.phase = "done", !.result = prepared]
                    ELSE [@ EXCEPT !.phase = "ready",
                                   !.seen = summaries,
                                   !.ancestry = prepared.ancestry,
                                   !.record = [conversation_id |-> "conv",
                                               level |-> DuplicatePeriod.level,
                                               period_start |-> DuplicatePeriod.period_start,
                                               content |-> content,
                                               created_by_message_id |->
                                                   prepared.currentMessage]]]
    /\ UNCHANGED <<live, versions, last, pin, pout, faultBudget, summaryVars>>

\* The outcome of the write of a caller: the stored rows, and the caller's
\* next phase and result.
PersistedSummary(stored, service, index, call) ==
    LET Returned(summary) ==
            [stored |-> stored, phase |-> "done", wrote |-> FALSE,
             result |-> [ok |-> TRUE, err |-> "", summary |-> summary]]
        Inserted(ins) ==
            IF ins.error = ""
            THEN [stored |-> ins.stored, phase |-> "done", wrote |-> TRUE,
                  result |-> [ok |-> TRUE, err |-> "", summary |-> ins.data]]
            ELSE IF service = "create_conversation_summary"
            THEN [stored |-> stored, phase |-> "conflict", wrote |-> TRUE,
                  result |-> Fail("")]
            ELSE [stored |-> stored, phase |-> "done", wrote |-> TRUE,
                  result |-> Fail("FailedToPersistDaySummary")]
        Picked(pick) ==
            IF pick.status = "reused" THEN Returned(pick.summary)
            ELSE Inserted(insertSummary(stored, call.record, index))
        found == StoredFor(call.seen, call.record.level, call.record.period_start)
    IN  IF service = "create_conversation_summary"
        THEN Inserted(insertSummary(stored, call.record, index))
        ELSE IF service = "SummariesService"
        THEN Picked(pickSummary(call.seen, call.record.level,
                                call.record.period_start, call.ancestry))
        ELSE IF evaluateExisting(call.seen, call.record, call.ancestry) = "exists"
        THEN Returned(found[Len(found)])
        ELSE [stored |-> upsertSummary(stored, call.record), phase |-> "done",
              wrote |-> TRUE,
              result |-> [ok |-> TRUE, err |-> "", summary |-> call.record]]

\* The insert or upsert of the row, or the reuse of a row loaded before.
PersistSummary(c) ==
    /\ inflight[c].phase = "ready"
    /\ \E outcome \in {PersistedSummary(summaries, deployed, uniqueIndex, inflight[c])} :
          /\ summaries' = outcome.stored
          /\ inflight' = [inflight EXCEPT ![c] =
                            [@ EXCEPT !.phase = outcome.phase,
                                      !.wrote = outcome.wrote,
                                      !.result = outcome.result]]
    /\ UNCHANGED <<live, versions, last, pin, pout, faultBudget,
                   messages, deployed, reply, uniqueIndex>>

\* The re-fetch of the tool after error.code === '23505'.
RefetchSummary(c) ==
    /\ inflight[c].phase = "conflict"
    /\ inflight' = [inflight EXCEPT ![c] =
                      [@ EXCEPT !.phase = "done",
                                !.result = refetchSummary(summaries, inflight[c].record)]]
    /\ UNCHANGED <<live, versions, last, pin, pout, faultBudget, summaryVars>>

NextDuplicates ==
    \E c \in Callers : BeginSummary(c) \/ PersistSummary(c) \/ RefetchSummary(c)

SpecDuplicates == InitDuplicates /\ [][NextDuplicates]_vars

\* Both callers went for the write of the period's row, and each of them
\* began before any row of the period was stored.
CreatedConcurrently ==
    \A c \in Callers : /\ inflight[c].phase = "done"
                       /\ inflight[c].wrote
                       /\ inflight[c].seen = <<>>

\* C22: when two callers create the summary of the same (conversation, level,
\* period_start) concurrently, exactly one row of that key is stored in the
\* end and both callers return successfully with that row.
C22_SingleWinner ==
    CreatedConcurrently =>
        LET rows == StoredFor(summaries, DuplicatePeriod.level,
                              DuplicatePeriod.period_start)
        IN  /\ Len(rows) = 1
            /\ \A c \in Callers : /\ inflight[c].result.ok
                                  /\ inflight[c].result.summary = rows[1]

(***************************************************************************)
(* The required periods.                                                   *)
(***************************************************************************)
\* The day the service took for today, and the days of the model's calendar.
Today == reply.result.todayStart

\* The days on which the branch of the requested head has a message.
BranchDays ==
    {startOfDay(messages[id].created_at) :
        id \in {m \in DOMAIN messages :
                   OnChain(m) /\ messages[m].conversation_id = reply.conversationId}}

CalendarDays == 0..60

\* The starts of the required periods of a level.
RequiredStarts(level) ==
    {period.period_start : period \in {q \in Required : q.level = level}}

\* No period is required twice.
RequiredOnce ==
    \A i, j \in 1..Len(reply.result.required) :
        /\ reply.result.required[i].level = reply.result.required[j].level
        /\ reply.result.required[i].period_start = reply.result.required[j].period_start
        => i = j

\* C23: the required DAY periods are yesterday, whether or not the branch
\* has a message on it, and every day from the start of the current week up
\* to but not including yesterday on which the branch has a message; no
\* other day is required.
C23_RequiredDays ==
    (Planned \/ Composed) =>
        /\ RequiredOnce
        /\ RequiredStarts("DAY") =
              {Today - 1} \cup {day \in CalendarDays : /\ startOfWeek(Today) <= day
                                                       /\ day < Today - 1
                                                       /\ day \in BranchDays}

\* A branch with messages on day 29 and on day 31, composed on day 31:
\* day 29 and the empty yesterday are required.
C23_Witness ==
    /\ Composed
    /\ deployed = "SummariesService"
    /\ Today = 31
    /\ BranchDays = {29, 31}
    /\ RequiredStarts("DAY") = {29, 30}

\* C24: the required WEEK periods are the weeks that start before the
\* current week and not before the current month and that hold a day on
\* which the branch has a message.
C24_RequiredWeeks ==
    (Planned \/ Composed) =>
        RequiredStarts("WEEK") =
            {startOfWeek(day) : day \in {d \in BranchDays :
                /\ startOfWeek(d) < startOfWeek(Today)
                /\ startOfWeek(d) >= startOfMonth(Today)}}

\* C25: the required MONTH periods are the months before the current month
\* that hold a day on which the branch has a message.
C25_RequiredMonths ==
    (Planned \/ Composed) =>
        RequiredStarts("MONTH") =
            {startOfMonth(day) : day \in {d \in BranchDays :
                   startOfMonth(d) < startOfMonth(Today)}}

(***************************************************************************)
(* The composed context.                                                   *)
(***************************************************************************)
LevelRank(level) == IF level = "MONTH" THEN 1 ELSE IF level = "WEEK" THEN 2 ELSE 3

\* Months ascending, then weeks ascending, then days ascending, and
\* yesterday, when listed, last of all.
PeriodOrder(periods) ==
    /\ \A i, j \in 1..Len(periods) :
          i < j => \/ LevelRank(periods[i].level) < LevelRank(periods[j].level)
                   \/ /\ periods[i].level = periods[j].level
                      /\ periods[i].period_start < periods[j].period_start
    /\ \A i \in 1..Len(periods) :
          (periods[i].level = "DAY" /\ periods[i].period_start = Today - 1)
              => i = Len(periods)

SystemSummaries == reply.result.system_summaries

AssemblyOrder == reply.result.assembly_order

\* C26: the required periods and the composed system_summaries are ordered
\* months ascending, weeks ascending, prior days ascending, yesterday last;
\* assembly_order lists the included summaries in that order, then the raw
\* segment 'today', then the raw segment 'tail'.
C26_OutputOrdering ==
    /\ (Planned \/ Composed) => PeriodOrder(reply.result.required)
    /\ Composed =>
          /\ PeriodOrder(SystemSummaries)
          /\ Len(AssemblyOrder) = Len(SystemSummaries) + 2
          /\ \A i \in 1..Len(SystemSummaries) :
                /\ AssemblyOrder[i].type = "summary"
                /\ AssemblyOrder[i].level = SystemSummaries[i].level
                /\ AssemblyOrder[i].period_start = SystemSummaries[i].period_start
          /\ AssemblyOrder[Len(SystemSummaries) + 1] = [type |-> "raw", segment |-> "today"]
          /\ AssemblyOrder[Len(SystemSummaries) + 2] = [type |-> "raw", segment |-> "tail"]

\* A composition on day 31 of a branch that wrote on day 29: the month, the
\* prior day and yesterday are required and all three are included.
C26_Witness ==
    /\ Composed
    /\ deployed = "SummaryCoordinator"
    /\ Today = 31
    /\ [i \in 1..Len(SystemSummaries) |->
           <<SystemSummaries[i].level, SystemSummaries[i].period_start>>]
          = << <<"MONTH", 0>>, <<"DAY", 29>>, <<"DAY", 30>> >>
    /\ Len(AssemblyOrder) = 5

(***************************************************************************)
(* Compositions over a branch of eight messages, which has more messages   *)
(* before today than the raw tail holds.                                   *)
(***************************************************************************)
LongIds == <<"m1", "m2", "m3", "m4", "m5", "m6", "m7", "m8">>

\* The created_at of the eight messages: two a day up to yesterday, or all
\* of them yesterday.
LongInstants ==
    { <<80, 81, 82, 83, 84, 85, 86, 88>>,
      <<86, 86, 86, 86, 87, 87, 87, 88>> }

\* m8 answers m7, or it answers m6 and m7 is on another branch.
LongChains ==
    { [k \in 1..8 |-> [conversation_id |-> "conv",
                       parent_message_id |->
                           IF k = 1 THEN Null
                           ELSE IF k = 8 THEN LongIds[parent]
                           ELSE LongIds[k - 1],
                       created_at |-> instants[k]]] :
        parent \in {6, 7}, instants \in LongInstants }

LongTables ==
    { [id \in Range(LongIds) |->
          chain[CHOOSE k \in 1..8 : LongIds[k] = id]] : chain \in LongChains }

InitAssembly ==
    /\ live = EmptyDoc
    /\ versions = <<>>
    /\ last = NoCall
    /\ pin = EmptyDoc
    /\ pout = NoResult
    /\ faultBudget = 0
    /\ inflight = NoCalls
    /\ messages \in LongTables
    /\ summaries = <<>>
    /\ deployed \in {"SummaryCoordinator", "SummariesService"}
    /\ reply = NoReply
    /\ uniqueIndex = IF deployed = "SummaryCoordinator" THEN "period" ELSE "provenance"

NextAssembly ==
    \/ ComposeContext
    \/ ComposeContextForTurn

SpecAssembly == InitAssembly /\ [][NextAssembly]_vars

RECURSIVE ChainFrom(_, _)
\* The messages on the parent chain of id.
ChainFrom(id, seen) ==
    IF id \notin DOMAIN messages \/ id \in seen THEN seen
    ELSE ChainFrom(messages[id].parent_message_id, seen \cup {id})

\* The messages of the requested branch written before today.
PreToday ==
    {id \in ChainFrom(reply.messageId, {}) : startOfDay(messages[id].created_at) < Today}

RawToday == reply.result.raw_messages_today

RawTail == reply.result.raw_tail_across_boundary

\* The day summary of the day is among the composed system_summaries.
DayIncluded(day) ==
    \E i \in 1..Len(SystemSummaries) :
        SystemSummaries[i].level = "DAY" /\ SystemSummaries[i].period_start = day

\* At most DEFAULT_TAIL_LIMIT messages, each of them once, all of the branch
\* and from before today, none of them a raw message of today.
TailBounded ==
    /\ Len(RawTail) <= 6
    /\ Cardinality(Range(RawTail)) = Len(RawTail)
    /\ Range(RawTail) \subseteq PreToday
    /\ Range(RawTail) \cap Range(RawToday) = {}

\* C27 as stated: the raw tail is bounded, and none of its messages falls on
\* a day whose DAY summary is among the composed system_summaries.
C27_TailNotSummarised ==
    Composed =>
        /\ TailBounded
        /\ \A id \in Range(RawTail) : ~DayIncluded(startOfDay(messages[id].created_at))

\* C27: the raw tail holds at most 6 messages of the branch, all from before
\* today and none a raw message of today: the latest messages before today,
\* whether or not the day summary of their day is included.
C27_TailLatest ==
    Composed =>
        /\ TailBounded
        /\ Len(RawTail) = IF Cardinality(PreToday) > 6 THEN 6 ELSE Cardinality(PreToday)
        /\ \A older \in PreToday \ Range(RawTail) : \A id \in Range(RawTail) :
              messages[older].created_at <= messages[id].created_at

\* Seven messages before today: the tail leaves the oldest out, and holds
\* the message of yesterday although yesterday's summary is included.
C27_Witness ==
    /\ Composed
    /\ Cardinality(PreToday) = 7
    /\ Len(RawTail) = 6
    /\ "m1" \notin Range(RawTail)
    /\ "m7" \in Range(RawTail)
    /\ DayIncluded(Today - 1)
    /\ startOfDay(messages["m7"].created_at) = Today - 1

(***************************************************************************)
(* normalizeNode on one node of every status.                              *)
(***************************************************************************)
StatusInputs ==
    {Undefined, "", "  ", "bogus",
     "not-started", "in-progress", "completed", " in-progress ", " completed ",
     "In-Progress", "Not-Started", "COMPLETED", " Completed ",
     "pending", "Pending", "PENDING", " Pending "}

InitStatus ==
    /\ live = EmptyDoc
    /\ versions = <<>>
    /\ last = NoCall
    /\ pin \in {[order |-> <<id>>,
                 nodes |-> (id :> InputNode(status, <<>>, graph, Num(100)))] :
                   id \in {"a", "b"}, status \in StatusInputs,
                   graph \in {"main", " main ", "a"}}
    /\ pout = NoResult
    /\ faultBudget = 0
    /\ inflight = NoCalls
    /\ NoSummaryService

\* normalizeNode(nodeId, node) on the node of pin.
NormalizeNode ==
    /\ pout.calls = 0
    /\ pout' = [calls |-> 1, options |-> NoOptions,
                first |-> normalizeNode(pin.order[1], pin.nodes[pin.order[1]], NoOptions),
                second |-> Fail("")]
    /\ UNCHANGED <<live, versions, last, pin, faultBudget, inflight, summaryVars>>

NextStatus == NormalizeNode

SpecStatus == InitStatus /\ [][NextStatus]_vars

\* The status normalizeNode was given, and what it made of it.
GivenStatus == pin.nodes[pin.order[1]].status

StatusRejected == ~pout.first.ok /\ pout.first.err = "InvalidStatus"

StatusRewritten(status) ==
    /\ ~StatusRejected
    /\ pout.first.ok => pout.first.node.status = status

\* C28 as stated: a canonical status in any letter case and with surrounding
\* whitespace is accepted and rewritten to the canonical value, 'pending' in
\* any case to not-started, and every other non-empty status is rejected.
C28_AnyCaseAccepted ==
    (pout.calls = 1 /\ GivenStatus \notin {Undefined, ""}) =>
        IF ToLowerCase(Trim(GivenStatus)) \in {"not-started", "in-progress", "completed"}
        THEN StatusRewritten(ToLowerCase(Trim(GivenStatus)))
        ELSE IF ToLowerCase(Trim(GivenStatus)) = "pending"
        THEN StatusRewritten("not-started")
        ELSE StatusRejected

\* C28: a canonical status, written in lower case as it is and with
\* surrounding whitespace, is accepted and rewritten to the canonical value;
\* 'pending' in any case is rewritten to not-started; every other non-empty
\* status, a canonical one in another letter case included, is rejected with
\* the invalid-status error.
C28_StatusNormalized ==
    (pout.calls = 1 /\ GivenStatus \notin {Undefined, ""}) =>
        IF Trim(GivenStatus) \in {"not-started", "in-progress", "completed"}
        THEN StatusRewritten(Trim(GivenStatus))
        ELSE IF ToLowerCase(Trim(GivenStatus)) = "pending"
        THEN StatusRewritten("not-started")
        ELSE StatusRejected

\* A canonical status in capitals was rejected.
C28_Witness ==
    /\ pout.calls = 1
    /\ GivenStatus = "COMPLETED"
    /\ StatusRejected

(***************************************************************************)
(* buildHierarchicalNodes.  The result is the top-level ids in key order   *)
(* and the clones, each with the ids of its children in the order they     *)
(* were attached: the nested tree is what the clones unfold to.            *)
(***************************************************************************)
\* Array.isArray(node.parents) ? node.parents : []
ParentsArray(node) == IF node.parents = NoParents THEN <<>> ELSE node.parents

\* The ids without parents, whether or not the parents they name are keys.
ParentlessIds(doc) ==
    SelectSeq(doc.order, LAMBDA nodeId : ParentsArray(doc.nodes[nodeId]) = <<>>)

\* rootIds: the keys that were attached to no clone.
RootIds(doc) ==
    SelectSeq(doc.order,
              LAMBDA nodeId :
                  \A parentId \in Range(ParentsArray(doc.nodes[nodeId])) :
                      parentId \notin Range(doc.order))

buildHierarchicalNodes(doc) ==
    [roots |-> RootIds(doc),
     clones |-> [parentId \in Range(doc.order) |->
                    [node |-> doc.nodes[parentId],
                     children |->
                         SelectSeq(doc.order,
                                   LAMBDA nodeId :
                                       parentId \in Range(ParentsArray(doc.nodes[nodeId])))]]]

\* The node maps the handlers hand over: a map, or a part of it, after its
\* true percentages were calculated.
HierarchyInputs ==
    {MapInput(order, pa, pb, pc, pd, Num(100), Num(100), "none") :
        order \in KeyOrders, pa \in ParentsOfA, pb \in ParentsOfB, pc \in ParentsOfC,
        pd \in ParentsOfD}

\* The part of a map with the given keys, in the key order of the map.
SubMap(doc, keys) ==
    [order |-> SelectSeq(doc.order, LAMBDA k : k \in keys),
     nodes |-> [k \in keys |-> doc.nodes[k]]]

InitHierarchy ==
    /\ live = EmptyDoc
    /\ versions = <<>>
    /\ last = NoCall
    /\ pin \in HierarchyInputs
    /\ pout = NoResult
    /\ faultBudget = 0
    /\ inflight = NoCalls
    /\ NoSummaryService

\* buildHierarchicalNodes(calculateTruePercentages(resultGraph))
Hierarchy(calculated) ==
    IF ~calculated.ok THEN calculated
    ELSE [ok |-> TRUE, err |-> "", doc |-> calculated.doc,
          hierarchical |-> buildHierarchicalNodes(calculated.doc)]

BuildHierarchicalNodes ==
    /\ pout.calls = 0
    /\ \E keys \in SUBSET DOMAIN pin.nodes :
          pout' = [calls |-> 1, options |-> NoOptions,
                   first |-> Hierarchy(calculateTruePercentages(SubMap(pin, keys),
                                                                NoOptions)),
                   second |-> Fail("")]
    /\ UNCHANGED <<live, versions, last, pin, faultBudget, inflight, summaryVars>>

NextHierarchy == BuildHierarchicalNodes

SpecHierarchy == InitHierarchy /\ [][NextHierarchy]_vars

\* The node map that was handed over, and the tree that came back.
HierarchyBuilt == pout.calls = 1 /\ pout.first.ok

InputMap == pout.first.doc

Tree == pout.first.hierarchical

\* The parents of a node that are keys of the input map.
ParentsInMap(nodeId) ==
    {parentId \in Range(ParentsArray(InputMap.nodes[nodeId])) :
        parentId \in DOMAIN InputMap.nodes}

\* The nodes of the tree below the given ones, within fuel levels.
RECURSIVE Below(_, _)
Below(ids, fuel) ==
    IF fuel = 0 THEN ids
    ELSE Below(ids \cup UNION {Range(Tree.clones[id].children) : id \in ids}, fuel - 1)

Iso(instant) == [kind |-> "iso", instant |-> instant]

\* normalizeIsoTimestamp: the instant of a text that Date can parse.
normalizeIsoTimestamp(value) ==
    IF value.kind = "empty" THEN Fail("EmptyTimestamp")
    ELSE IF value.kind # "iso" THEN Fail("InvalidTimestamp")
    ELSE [ok |-> TRUE, err |-> "", instant |-> value.instant]

\* A window that leaves its last instant out.
InHalfOpenPeriod(createdAt, periodStart, periodEnd) ==
    periodStart <= createdAt /\ createdAt < periodEnd

\* .gte('created_at', normalizedPeriodStart).lte('created_at', normalizedPeriodEnd)
InPeriod(createdAt, periodStart, periodEnd) ==
    periodStart <= createdAt /\ createdAt <= periodEnd

get_messages_for_period(rows, conversationId, messageId, periodStart, periodEnd) ==
    LET Walked_(ancestorIds, startDate, endDate) ==
            IF ~ancestorIds.ok THEN ancestorIds
            ELSE [ok |-> TRUE, err |-> "",
                  messages |->
                      SortedByCreatedAt(rows,
                          {id \in Range(ancestorIds.ids) :
                              /\ rows[id].conversation_id = Trim(conversationId)
                              /\ InPeriod(rows[id].created_at, startDate, endDate)})]
        Normalized(start, end) ==
            IF ~start.ok THEN start
            ELSE IF ~end.ok THEN end
            ELSE IF start.instant >= end.instant THEN Fail("PeriodEndNotAfterStart")
            ELSE Walked_(getAncestralMessageIds(rows, conversationId, messageId),
                         start.instant, end.instant)
    IN  IF Trim(conversationId) = "" \/ Trim(messageId) = "" THEN Fail("EmptyId")
        ELSE Normalized(normalizeIsoTimestamp(periodStart),
                        normalizeIsoTimestamp(periodEnd))

\* The windows asked for: between the instants of the messages, and with an
\* empty or unreadable end.
PeriodInstants == {58, 62, 72}

PeriodInputs ==
    {Iso(instant) : instant \in PeriodInstants}
    \cup {[kind |-> "empty", instant |-> 0], [kind |-> "invalid", instant |-> 0]}

PeriodTables ==
    { [id \in MessageIds |->
          [conversation_id |-> IF id = "m1" THEN links.conversation_id ELSE "conv",
           parent_message_id |-> links[id],
           created_at |-> instants[id]]] :
        links \in ParentLinks, instants \in [MessageIds -> PeriodInstants] }

InitPeriod ==
    /\ live = EmptyDoc
    /\ versions = <<>>
    /\ last = NoCall
    /\ pin = EmptyDoc
    /\ pout = NoResult
    /\ faultBudget = 0
    /\ inflight = NoCalls
    /\ messages \in PeriodTables
    /\ summaries = <<>>
    /\ deployed = "none"
    /\ reply = NoReply
    /\ uniqueIndex = "none"

GetMessagesForPeriod ==
    /\ \E messageId \in WalkStarts \cup {"  "}, periodStart, periodEnd \in PeriodInputs :
          reply' = [op |-> "get_messages_for_period", conversationId |-> "conv",
                    messageId |-> messageId,
                    periodStart |-> periodStart, periodEnd |-> periodEnd,
                    result |-> get_messages_for_period(messages, "conv", messageId,
                                                       periodStart, periodEnd)]
    /\ UNCHANGED <<live, versions, last, pin, pout, faultBudget, inflight,
                   messages, summaries, deployed, uniqueIndex>>

NextPeriod == GetMessagesForPeriod

SpecPeriod == InitPeriod /\ [][NextPeriod]_vars

\* A call of get_messages_for_period with two readable timestamps.
PeriodAsked ==
    /\ reply.op = "get_messages_for_period"
    /\ reply.periodStart.kind = "iso"
    /\ reply.periodEnd.kind = "iso"

\* The messages on the chain of the requested message, in the conversation,
\* that were created within the closed window.
ChainInPeriod ==
    {id \in DOMAIN messages :
        /\ \E ids \in WalkSequences : FollowsLinks(ids) /\ ids[Len(ids)] = id
        /\ reply.periodStart.instant <= messages[id].created_at
        /\ messages[id].created_at <= reply.periodEnd.instant}

\* C30: get_messages_for_period fails when period_start is not before
\* period_end; for a window that is in order and a message with a proper
\* chain it succeeds; and what it returns is exactly the messages of the
\* chain of message_id in the conversation with created_at in the closed
\* window [period_start, period_end], each once and in ascending created_at
\* order, so never a message of another branch.
C30_MessagesForPeriod ==
    PeriodAsked =>
        /\ reply.periodStart.instant >= reply.periodEnd.instant => ~reply.result.ok
        /\ (/\ reply.periodStart.instant < reply.periodEnd.instant
            /\ \E ids \in WalkSequences : ProperChain(ids)) => reply.result.ok
        /\ reply.result.ok =>
              /\ reply.periodStart.instant < reply.periodEnd.instant
              /\ Range(reply.result.messages) = ChainInPeriod
              /\ \A i, j \in 1..Len(reply.result.messages) :
                    i < j => /\ reply.result.messages[i] # reply.result.messages[j]
                             /\ messages[reply.result.messages[i]].created_at
                                   <= messages[reply.result.messages[j]].created_at

\* A fork: the window ends at the instant of the head, which is returned;
\* the root lies before the window, and the other reply to the root lies in
\* the window but on another branch.
C30_Witness ==
    /\ PeriodAsked
    /\ reply.messageId = "m3"
    /\ reply.result.ok
    /\ reply.result.messages = <<"m3">>
    /\ messages["m3"].created_at = reply.periodEnd.instant
    /\ messages["m3"].parent_message_id = "m1"
    /\ messages["m2"].parent_message_id = "m1"
    /\ messages["m1"].created_at < reply.periodStart.instant
    /\ messages["m2"].created_at = reply.periodStart.instant

(***************************************************************************)
(* How an ancestry walk ends.                                              *)
(***************************************************************************)
WalkOps == {"getAncestralMessageIds", "fetchMessageAncestry", "buildAncestry"}

\* The id the walk starts from: the worker trims its argument.
WalkStart ==
    IF reply.op = "getAncestralMessageIds" THEN Trim(reply.messageId)
    ELSE reply.messageId

\* ids follows the stored parent links, as written, from the start of the walk.
FollowsStoredLinks(ids) ==
    /\ ids[1] = WalkStart
    /\ \A i \in 1..Len(ids) : InConversation(ids[i])
    /\ \A i \in 1..Len(ids) - 1 : messages[ids[i]].parent_message_id = ids[i + 1]

\* The stored links lead from the start of the walk back to a row already
\* fetched.
StoredLinksRevisit ==
    \E ids \in WalkSequences :
        FollowsStoredLinks(ids) /\ \E i \in 1..Len(ids) - 1 : ids[i] = ids[Len(ids)]

\* C31: an ancestry walk fetches no row twice and ends in one of three ways:
\* at a message with no parent, with a failure on an id that names no row of
\* the conversation, or with the circular-ancestry failure when the links lead back to an id already
\* walked; it never stops silently on a cycle.
C31_WalkEnds ==
    reply.op \in WalkOps
        => /\ reply.result.ok
                 => /\ \E id \in WalkedIds :
                          InConversation(id) /\ ~Truthy(messages[id].parent_message_id)
                    /\ reply.op # "buildAncestry"
                          => Len(reply.result.ids) = Cardinality(WalkedIds)
           /\ ~reply.result.ok
                 => reply.result.err
                        \in {"EmptyId", "MessageNotFound", "ConversationMismatch",
                            "CircularParent"}
           /\ StoredLinksRevisit
                 => ~reply.result.ok /\ reply.result.err = "CircularParent"

(***************************************************************************)
(* The recursion of calculateTruePercentages.                              *)
(***************************************************************************)
\* How often the call computed the value of node k.
Evaluations(result, k) ==
    Cardinality({i \in 1..Len(result.evaluated) : result.evaluated[i] = k})

\* C32: on a node map whose parents relation is acyclic
\* calculateTruePercentages terminates without exhausting the stack, and a
\* call computes the value of each node at most once whatever the fan-in; on
\* a map whose parents relation has a cycle (a node naming itself included)
\* the call does not return: on a map that satisfies the contract it
\* recurses until the stack is exhausted.
C32_MemoizedUnguardedRecursion ==
    pout.calls >= 1 =>
        /\ Acyclic(pin) => (pout.first.ok \/ pout.first.err # "RangeError")
        /\ pout.first.ok
              => \A k \in DOMAIN pin.nodes : Evaluations(pout.first, k) = 1
        /\ (pout.calls = 2 /\ pout.second.ok)
              => \A k \in DOMAIN pin.nodes : Evaluations(pout.second, k) = 1
        /\ ~Acyclic(pin) => ~pout.first.ok
        /\ (~Acyclic(pin) /\ ContractNormal(pin, pout.options))
              => pout.first.err = "RangeError"

\* A diamond was computed: "a" is reached from "d" through "b" and through
\* "c", and from "c" directly and through "b".
C32_Witness ==
    /\ pout.calls >= 1 /\ pout.first.ok
    /\ pin.nodes["b"].parents = <<"a">>
    /\ pin.nodes["c"].parents = <<"a", "b">>
    /\ pin.nodes["d"].parents = <<"b", "c">>
    /\ pin.order = <<"d", "c", "b", "a">>
    /\ pout.first.evaluated = <<"d", "b", "a", "c">>

\* A map with a cycle was given and the stack was exhausted.
C32_CycleWitness ==
    /\ pout.calls >= 1
    /\ pin.nodes["c"].parents = <<"d">>
    /\ pin.nodes["d"].parents = <<"b", "c">>
    /\ pout.first = Fail("RangeError")

(***************************************************************************)
(* The derived percentages of a persisted document.                        *)
(***************************************************************************)
\* Recomputing the true percentages on the document changes none of them.
TruePercentagesCurrent(doc) ==
    LET Recomputed(c) ==
            /\ c.ok
            /\ \A k \in DOMAIN doc.nodes :
                  c.doc.nodes[k].true_percentage_of_total
                     = doc.nodes[k].true_percentage_of_total
    IN  Recomputed(calculateTruePercentages(doc, WithIds(Keys(doc))))

\* C33: in the document patch_graph_document persists, the live document and
\* the version created with it, the true_percentage_of_total of every node
\* is the value calculateTruePercentages computes from the persisted parents
\* and percentage_of_parent values, also after a patch that squished.
C33_PersistedPercentagesCurrent ==
    (last.op = "patch" /\ last.status = "ok" /\ last.updated)
        => /\ TruePercentagesCurrent(live)
           /\ TruePercentagesCurrent(versions[last.version_id])

\* A patch with an empty operation list.
EmptyPatch == [json |-> "array", ops |-> <<>>]

\* patch_graph_document with an empty operation list, called now, succeeds
\* and stores nothing.
EmptyPatchStoresNothing ==
    LET Stored(outcome) ==
            /\ outcome.last.status = "ok"
            /\ ~outcome.last.updated
            /\ outcome.live = live
            /\ outcome.versions = versions
    IN  Stored(patch_graph_document(live, versions, EmptyPatch, "none"))

\* C34: after a successful patch_graph_document call, a patch_graph_document
\* call with an empty operation list that follows immediately detects no
\* change: it updates no live document and creates no version.
C34_EmptyPatchAfterPatch ==
    (last.op = "patch" /\ last.status = "ok") => EmptyPatchStoresNothing

(***************************************************************************)
(* Two concurrent mutating calls, each patch_graph_document or             *)
(* set_graph_document_to_version, on a store that holds versions already.  *)
(* set_graph_document_to_version is suspended at the fetch of the version, *)
(* at the fetch of the live document, at the update and at the insert of   *)
(* the version.                                                            *)
(***************************************************************************)
\* SeedDoc after a patch that set the percentage_of_parent of "b" to 40.
ReweightedDoc ==
    PatchedDocument(SeedDoc,
                    <<[op |-> "replace", id |-> "b", field |-> "percentage_of_parent",
                       node |-> [Blank EXCEPT !.percentage_of_parent = Num(40)]]>>).doc

\* The store after get_or_create_default_graph_version, and after that call
\* and one patch.
InitMutations ==
    /\ \/ live \in InitDocs /\ versions = <<live>>
       \/ live = ReweightedDoc /\ versions = <<SeedDoc, ReweightedDoc>>
    /\ last = NoCall
    /\ pin = EmptyDoc
    /\ pout = NoResult
    /\ faultBudget = 0
    /\ inflight = NoCalls
    /\ NoSummaryService

\* const versionDoc = await this.fetchGraphDocumentVersion(version_id)
FetchVersionForSet(c) ==
    /\ inflight[c].phase = "idle"
    /\ \E versionId \in 1..Len(versions) + 1 :
          \E v \in {fetchGraphDocumentVersion(versions, versionId, "none")} :
              /\ v.ok
              /\ inflight' = [inflight EXCEPT ![c] =
                    IF v.found
                    THEN [@ EXCEPT !.phase = "fetchedVersion", !.patched = v.doc]
                    ELSE [@ EXCEPT !.phase = "done",
                                   !.result = Envelope("set_version", "failed",
                                                       "VersionNotFound", 0, FALSE,
                                                       live, versions)]]
    /\ UNCHANGED <<live, versions, last, pin, pout, faultBudget, summaryVars>>

\* const currentDoc = await this.getGraphDocument(), and the comparison.
ReadForSet(c) ==
    /\ inflight[c].phase = "fetchedVersion"
    /\ \E g \in {getGraphDocument(live, "none")} :
          /\ g.ok
          /\ inflight' = [inflight EXCEPT ![c] =
                IF documentsAreEqual(g.doc, inflight[c].patched)
                THEN [@ EXCEPT !.phase = "done", !.doc = g.doc, !.seen = UpdatesSoFar,
                               !.result = Envelope("set_version", "ok", "", 0, FALSE,
                                                   live, versions)]
                ELSE [@ EXCEPT !.phase = "readForSet", !.doc = g.doc,
                               !.seen = UpdatesSoFar]]
    /\ UNCHANGED <<live, versions, last, pin, pout, faultBudget, summaryVars>>

\* await this.updateGraphDocument(versionDoc)
WriteForSet(c) ==
    /\ inflight[c].phase = "readForSet"
    /\ live' = inflight[c].patched
    /\ inflight' = [inflight EXCEPT ![c] =
                      [@ EXCEPT !.phase = "updatedForSet",
                                !.wrote = UpdatesSoFar + 1,
                                !.result = Envelope("set_version", "ok", "", 0, TRUE,
                                                    live, versions)]]
    /\ UNCHANGED <<versions, last, pin, pout, faultBudget, summaryVars>>

\* await this.createGraphDocumentVersion(versionDoc), then the return.
VersionForSet(c) ==
    /\ inflight[c].phase = "updatedForSet"
    /\ versions' = Append(versions, VersionDocument(c))
    /\ inflight' = [inflight EXCEPT ![c] =
                      [@ EXCEPT !.phase = "done",
                                !.result = [@ EXCEPT !.version_id = Len(versions) + 1]]]
    /\ UNCHANGED <<live, last, pin, pout, faultBudget, summaryVars>>

NextMutations ==
    \E c \in Callers :
        \/ ReadForPatch(c) \/ WriteForPatch(c) \/ VersionForPatch(c)
        \/ FetchVersionForSet(c) \/ ReadForSet(c) \/ WriteForSet(c) \/ VersionForSet(c)

SpecMutations == InitMutations /\ [][NextMutations]_vars

\* Both calls are over and both succeeded.
BothSucceeded ==
    \A c \in Callers : inflight[c].phase = "done" /\ inflight[c].result.status = "ok"

\* The calls that updated the live document.
Updaters == {c \in Callers : inflight[c].wrote > 0}

\* The call whose update came last, and the call whose version came last.
UpdatedLast(c) ==
    c \in Updaters /\ \A d \in Updaters : inflight[d].wrote <= inflight[c].wrote

VersionedLast(c) ==
    c \in Updaters
        /\ \A d \in Updaters : inflight[d].result.version_id <= inflight[c].result.version_id

\* C35 as stated: once two concurrent mutating calls have both completed
\* successfully, the most recently created version is the live document,
\* however their steps interleaved.
C35_LatestVersionIsLive ==
    BothSucceeded => versions[Len(versions)] = live

\* C35: once two concurrent mutating calls have both completed successfully,
\* the live document is the document of the call that updated last and the
\* most recently created version is the document of the call that inserted
\* its version last; so the most recent version is the live document when
\* one call did both last, and when no call stored anything.
C35_LatestVersionOfLastInsert ==
    BothSucceeded =>
        /\ \A c \in Callers :
              /\ UpdatedLast(c) => live = inflight[c].patched
              /\ VersionedLast(c) => versions[Len(versions)] = inflight[c].patched
              /\ (UpdatedLast(c) /\ VersionedLast(c)) => versions[Len(versions)] = live
        /\ Updaters = {} => versions[Len(versions)] = live

\* A patch and a set_graph_document_to_version overlapped: the patch updated
\* first and inserted its version last, and the most recent version is not
\* the live document.
C35_Witness ==
    /\ BothSucceeded
    /\ \E c, d \in Callers :
          /\ inflight[c].result.op = "patch" /\ inflight[d].result.op = "set_version"
          /\ inflight[c].wrote = 1 /\ inflight[d].wrote = 2
          /\ VersionedLast(c)
    /\ versions[Len(versions)] # live

(***************************************************************************)
(* Two concurrent get_or_create_default_graph_version calls.  The handler  *)
(* is suspended at the lookup of the earliest version, at the fetch of the *)
(* live document and at the insert of the version.                         *)
(***************************************************************************)
InitDefaults ==
    /\ live \in InitDocs
    /\ versions \in {<<>>, <<live>>}
    /\ last = NoCall
    /\ pin = EmptyDoc
    /\ pout = NoResult
    /\ faultBudget = 0
    /\ inflight = NoCalls
    /\ NoSummaryService

\* const existingVersionId = await this.getEarliestGraphDocumentVersionId(),
\* and the return of the id found.
CheckForDefault(c) ==
    /\ inflight[c].phase = "idle"
    /\ \E existingVersionId \in {getEarliestGraphDocumentVersionId(versions)} :
          inflight' = [inflight EXCEPT ![c] =
              IF existingVersionId # 0
              THEN [@ EXCEPT !.phase = "done",
                             !.result = Envelope("default_version", "ok", "",
                                                 existingVersionId, FALSE,
                                                 live, versions)]
              ELSE [@ EXCEPT !.phase = "checkedDefault",
                             !.result = Envelope("default_version", "none", "", 0,
                                                 FALSE, live, versions)]]
    /\ UNCHANGED <<live, versions, last, pin, pout, faultBudget, summaryVars>>

\* const currentDoc = await this.getGraphDocument()
ReadForDefault(c) ==
    /\ inflight[c].phase = "checkedDefault"
    /\ \E g \in {getGraphDocument(live, "none")} :
          /\ g.ok
          /\ inflight' = [inflight EXCEPT ![c] =
                            [@ EXCEPT !.phase = "readForDefault", !.doc = g.doc]]
    /\ UNCHANGED <<live, versions, last, pin, pout, faultBudget, summaryVars>>

\* const newVersionId = await this.createGraphDocumentVersion(currentDoc),
\* then the return.
VersionForDefault(c) ==
    /\ inflight[c].phase = "readForDefault"
    /\ versions' = Append(versions, inflight[c].doc)
    /\ inflight' = [inflight EXCEPT ![c] =
                      [@ EXCEPT !.phase = "done",
                                !.result = [@ EXCEPT !.status = "ok",
                                                     !.version_id = Len(versions) + 1,
                                                     !.was_created_now = TRUE]]]
    /\ UNCHANGED <<live, last, pin, pout, faultBudget, summaryVars>>

\* The answer has reached the caller, who may call again.
ReturnForDefault(c) ==
    /\ inflight[c].phase = "done"
    /\ inflight' = [inflight EXCEPT ![c] = NoCalls[c]]
    /\ UNCHANGED <<live, versions, last, pin, pout, faultBudget, summaryVars>>

NextDefaults ==
    \E c \in Callers :
        \/ CheckForDefault(c) \/ ReadForDefault(c) \/ VersionForDefault(c)
        \/ ReturnForDefault(c)

SpecDefaults == InitDefaults /\ [][NextDefaults]_vars

\* Both calls are over, and each looked for the earliest version when the
\* store held none.
BothStartedWithoutVersion ==
    \A c \in Callers :
        /\ inflight[c].phase = "done"
        /\ inflight[c].result.op = "default_version"
        /\ inflight[c].result.preVersions = <<>>

\* C36: two concurrent get_or_create_default_graph_version calls that start
\* when no version exists create one version at most between them and return
\* the same default_graph_document_version_id, the id of the earliest version
\* there is afterwards.
C36_OneDefaultVersion ==
    BothStartedWithoutVersion
        => /\ Len(versions) <= 1
           /\ \A c, d \in Callers :
                 inflight[c].result.version_id = inflight[d].result.version_id
           /\ \A c \in Callers :
                 /\ inflight[c].result.status = "ok"
                 /\ inflight[c].result.version_id
                       = getEarliestGraphDocumentVersionId(versions)

(***************************************************************************)
(* Composing twice for one branch head.                                    *)
(***************************************************************************)
\* This step is a composition for the head the last composition succeeded
\* for, with no call in between.
ComposedAgain ==
    /\ reply.op = "compose" /\ reply.result.ok
    /\ reply'.op = "compose"
    /\ reply'.messageId = reply.messageId

\* C37: when a composition for a branch head has succeeded and the next call
\* is a composition for the same head, with the messages and the summaries
\* as the first call left them, the second call succeeds, generates nothing
\* and writes no summary row.
C37_SecondCompositionReuses ==
    [][ComposedAgain
          => /\ reply'.result.ok
             /\ reply'.result.generation.generated = <<>>
             /\ summaries' = summaries]_vars

\* A composition that found the rows of an earlier composition for the same
\* head: it generated nothing and reused rows that this head created.
C37_Witness ==
    /\ Composed
    /\ reply.result.generation.generated = <<>>
    /\ Len(reply.result.generation.reused) >= 2
    /\ \A i \in 1..Len(reply.result.generation.reused) :
          reply.result.generation.reused[i].created_by_message_id = reply.messageId
    /\ reply.pre = summaries

(***************************************************************************)
(* The day summaries a week or month summary is built from.                *)
(***************************************************************************)
\* The DAY rows folded into the weeks and months this call generated.
FoldedDaySummaries ==
    UNION {reply.result.aggregated[i].children :
              i \in 1..Len(reply.result.aggregated)}

\* C38: every DAY summary folded into a WEEK or MONTH summary that a
\* composition generates for a branch head was created by a message on the
\* chain of that head (in this call or before); a day summary written on
\* another branch is never folded in.
C38_ChildSummariesOnBranch ==
    Composed => \A row \in FoldedDaySummaries : OnChain(row.created_by_message_id)

(***************************************************************************)
(* What a composition on one branch leaves for the heads of the others.    *)
(***************************************************************************)
\* The plan of the deployed service for head a over the stored rows.
PlanFor(stored, a) ==
    IF deployed = "SummaryCoordinator"
    THEN listRequired(messages, stored, "conv", a)
    ELSE listRequiredSummaries(messages, stored, "conv", a)

\* The periods the plan for head a reports as 'exists'.
ExistsFor(stored, a) ==
    LET Reported(plan) ==
            IF ~plan.ok THEN {}
            ELSE {[level |-> plan.required[i].level,
                   period_start |-> plan.required[i].period_start] :
                     i \in {j \in 1..Len(plan.required) :
                               plan.required[j].status = "exists"}}
    IN  Reported(PlanFor(stored, a))

\* a heads another branch than the requested head: neither is on the chain
\* of the other.
OtherBranch(a) ==
    /\ a \notin ChainFrom(reply.messageId, {})
    /\ reply.messageId \notin ChainFrom(a, {})

\* C39: a composition for a head on one branch takes nothing away from what
\* a head on another branch can reuse: every period the plan for that head
\* reported as 'exists' before the call is reported as 'exists' after it.
C39_BranchIsolation ==
    Composed
        => \A a \in DOMAIN messages :
              OtherBranch(a) => ExistsFor(reply.pre, a) \subseteq ExistsFor(summaries, a)

\* ---------------------------------------------------------------------
\* Coverage of the branch's days by the required periods.

\* The days of a required period of any level.
PeriodDays(period) ==
    IF period.level = "DAY" THEN {period.period_start} ELSE DaysOf(period)

\* The day lies inside at least one required period.
Covered(day) == \E period \in Required : day \in PeriodDays(period)

\* The branch days before today.
EarlierBranchDays == {day \in BranchDays : day < Today}

\* A day of the current month, before the current week, in a week that
\* began before the current month: the planners skip that week (it starts
\* before the month), the month (it is the current one) and the day (it is
\* before the current week).
InStraddlingWeek(day) ==
    /\ day >= startOfMonth(Today)
    /\ day < startOfWeek(Today)
    /\ startOfWeek(day) < startOfMonth(Today)

====
